---- MODULE Spec2Model ----
(***************************************************************************)
(* Acquisition-and-calibration engine of the calibration page             *)
(* (src/src/pages/CalibrationPage.tsx): serial line framer, telemetry      *)
(* parser, channel store, capture controller with its averaging timers,   *)
(* and the calibration history with its persistence calls.                 *)
(*                                                                         *)
(* Text is a sequence of one-character strings.  Numbers are exact         *)
(* rationals [n, d] with d > 0; d = 0 stands for the JavaScript NaN.       *)
(* A temperature is kept as the term it was computed from (raw value and   *)
(* coefficient set), because the logarithm is not computed here.           *)
(***************************************************************************)
EXTENDS Integers, Sequences, FiniteSets, TLC

(* ------------------------------ bounds -------------------------------- *)
MaxText == 6            \* characters read by the framer in all
MaxChunkLen == 3        \* characters of one chunk
MaxRequests == 3        \* capture requests accepted
MaxTicks == 1           \* sampler firings per averaging session
MaxLines == 1           \* telemetry lines read while capturing
MaxSamples == 4         \* sampler ticks of the averaged session of SpecAveraging
MaxRampLines == 4       \* telemetry lines of the rising ramp
MaxToggles == 1         \* activation toggles during an averaged session
MaxMarkerCaptures == 126 \* instant captures of SpecMarkers
MaxChartLines == 502    \* telemetry lines of SpecChart
MaxTelemetryLines == 3   \* telemetry lines of SpecTelemetry
MaxTokens == 3          \* tokens of one line of SpecParser
MaxPersistCaptures == 2 \* capture requests of SpecPersist
MaxFitLog == 5          \* entries of the log loaded in SpecFit
MaxFitLines == 2        \* telemetry lines delivered in SpecFit
MaxConversionLines == 3 \* telemetry lines delivered in SpecConversion
MaxInactiveCaptures == 2 \* capture requests of SpecInactive
MaxInactiveTicks == 2   \* sampler ticks of one session in SpecInactive
MaxStandardLines == 2   \* telemetry lines delivered in SpecDefaults
MaxStandardCaptures == 1 \* capture requests of SpecDefaults
MaxToggleCommands == 4  \* activation toggles of SpecToggle
MaxTransportLines == 2  \* telemetry lines delivered in SpecTransport
MaxRefitLines == 3      \* telemetry lines delivered in SpecRefit
MaxRefitCaptures == 1   \* capture requests of SpecRefit
MaxFitCaptures == 1      \* capture requests of SpecFitCapture
MaxFitTicks == 1         \* sampler ticks per session in SpecFitCapture
MaxCloseOpens == 2       \* connections opened in SpecClose
MaxCloseText == 14       \* characters received in SpecClose
MaxLogoutCaptures == 1   \* capture requests of SpecLogout
MaxLogoutTicks == 1      \* sampler ticks per session in SpecLogout
MaxSampleLines == 2      \* telemetry lines delivered in SpecSample
MaxSampleToggles == 2    \* commands sent before the last toggle of SpecSample
MaxCoeffCaptures == 2    \* capture requests of SpecCoeffs
MaxMissingLines == 2     \* telemetry lines delivered in SpecMissing
MaxMissingTicks == 2     \* sampler ticks per session in SpecMissing

(* ------------------------------ numbers ------------------------------- *)
RECURSIVE Gcd(_, _)
Gcd(a, b) == IF b = 0 THEN a ELSE Gcd(b, a % b)

Abs(x) == IF x < 0 THEN -x ELSE x

NaN == [n |-> 0, d |-> 0]

Rat(n, d) ==
  IF d = 0 THEN NaN
  ELSE LET g == Gcd(Abs(n), Abs(d))
           s == IF d < 0 THEN -1 ELSE 1
       IN  [n |-> (s * n) \div g, d |-> (s * d) \div g]

Num(k) == [n |-> k, d |-> 1]

IsNaN(x) == x.d = 0

\* JavaScript "a + b" on numbers
NumAdd(a, b) ==
  IF IsNaN(a) \/ IsNaN(b) THEN NaN ELSE Rat(a.n * b.d + b.n * a.d, a.d * b.d)

\* JavaScript "a / k" for a positive count k
NumDiv(a, k) == IF IsNaN(a) THEN NaN ELSE Rat(a.n, a.d * k)

\* JavaScript "a > 0": false for NaN
NumGt0(a) == ~IsNaN(a) /\ a.n > 0

(* ------------------------------- text --------------------------------- *)
NL == "\n"
WhiteSpace == {" ", "\t", "\r", "\n"}
Digits == {"0", "1", "2", "3", "4", "5", "6", "7", "8", "9"}

DigitVal(c) ==
  CASE c = "0" -> 0 [] c = "1" -> 1 [] c = "2" -> 2 [] c = "3" -> 3
    [] c = "4" -> 4 [] c = "5" -> 5 [] c = "6" -> 6 [] c = "7" -> 7
    [] c = "8" -> 8 [] c = "9" -> 9

Tail0(s, k) == SubSeq(s, k, Len(s))

\* index of the first occurrence of character c in s, 0 when absent
IndexOf(s, c) ==
  IF \E i \in 1..Len(s) : s[i] = c
  THEN CHOOSE i \in 1..Len(s) : s[i] = c /\ \A j \in 1..(i - 1) : s[j] # c
  ELSE 0

\* String.prototype.split with a one-character separator
RECURSIVE Split(_, _)
Split(s, c) ==
  LET i == IndexOf(s, c)
  IN  IF i = 0 THEN <<s>>
      ELSE <<SubSeq(s, 1, i - 1)>> \o Split(Tail0(s, i + 1), c)

\* String.prototype.trim
Trim(s) ==
  LET keep == {i \in 1..Len(s) : s[i] \notin WhiteSpace}
  IN  IF keep = {} THEN <<>>
      ELSE LET lo == CHOOSE i \in keep : \A j \in keep : i <= j
               hi == CHOOSE i \in keep : \A j \in keep : j <= i
           IN  SubSeq(s, lo, hi)

StartsWith(s, p) == Len(s) >= Len(p) /\ SubSeq(s, 1, Len(p)) = p

\* number of leading characters of s that belong to the set cs
LeadLen(s, cs) ==
  IF \A i \in 1..Len(s) : s[i] \in cs THEN Len(s)
  ELSE (CHOOSE i \in 1..Len(s) : s[i] \notin cs /\ \A j \in 1..(i - 1) : s[j] \in cs) - 1

RECURSIVE DigitsVal(_)
DigitsVal(ds) ==
  IF ds = <<>> THEN 0
  ELSE 10 * DigitsVal(SubSeq(ds, 1, Len(ds) - 1)) + DigitVal(ds[Len(ds)])

RECURSIVE Pow10(_)
Pow10(k) == IF k = 0 THEN 1 ELSE 10 * Pow10(k - 1)

\* leading white space and an optional sign removed: [sign, rest]
SignedBody(s) ==
  LET t == Tail0(s, LeadLen(s, WhiteSpace) + 1)
  IN  IF t # <<>> /\ t[1] = "-" THEN [sign |-> -1, rest |-> Tail0(t, 2)]
      ELSE IF t # <<>> /\ t[1] = "+" THEN [sign |-> 1, rest |-> Tail0(t, 2)]
      ELSE [sign |-> 1, rest |-> t]

\* parseInt(s): the longest decimal-digit prefix, NaN when there is none
ParseInt(s) ==
  LET b == SignedBody(s)
      k == LeadLen(b.rest, Digits)
  IN  IF k = 0 THEN NaN ELSE Num(b.sign * DigitsVal(SubSeq(b.rest, 1, k)))

\* parseFloat(s): digits with an optional fraction, NaN when there is no digit
ParseFloat(s) ==
  LET b == SignedBody(s)
      k == LeadLen(b.rest, Digits)
      after == Tail0(b.rest, k + 1)
      f == IF after # <<>> /\ after[1] = "." THEN LeadLen(Tail0(after, 2), Digits) ELSE 0
  IN  IF k = 0 /\ f = 0 THEN NaN
      ELSE Rat(b.sign * (DigitsVal(SubSeq(b.rest, 1, k)) * Pow10(f)
                         + DigitsVal(SubSeq(after, 2, f + 1))),
               Pow10(f))

(* -------------------------- program constants ------------------------- *)
HistoryCap == 500          \* "if (newData.length > 500) newData.shift()"
ChannelOffset == 28        \* "const channel = t.id + 28"
NumChannels == 4

Channels == 1..NumChannels
HardwareChannels == {i + ChannelOffset : i \in Channels}

(* ------------------------------ state --------------------------------- *)
VARIABLES
  thermistors,            \* useState: the four ThermistorData records
  calibrationCoeffs,      \* useState: hardware channel -> coefficient set
  chartData,              \* useState: live telemetry history
  calibrationLog,         \* useState: in-memory calibration log
  calibrationPoints,      \* useState: calibration marker buffer
  measuredTempInput,      \* useState: reference temperature field
  averagingTime,          \* useState: averaging duration field
  averagingInProgress,    \* useState
  serialConnected,        \* useState
  portRef, readerRef, bufferRef,               \* useRef
  averagingIntervalRef, averagingTimeoutRef,   \* useRef
  loopCoeffs,             \* calibrationCoeffs captured by the running read loop
  closeCall,              \* the closeSerialPort() call in progress and who awaits it
  sentCommands,           \* what sendCommand has written to the device
  intervals, timeouts,    \* live timers of the event loop
  sessions,               \* closure variables of each averaging request
  nextTimer,              \* timer ids handed out so far
  mounted,                \* the page component is mounted
  now,                    \* serial number of the last telemetry line (its Date.now())
  logFetch,               \* the GET /log request issued on mount
  serverLog,              \* the log held by the persistence collaborator
  posts,                  \* POST /log requests in flight
  coeffFetches,           \* GET /coeffs requests in flight
  received, delivered,    \* history: text read so far, lines handed to updateSensorData
  captures,               \* history: capture requests accepted so far
  lastBuilt,              \* history: the entry built last, and what it was built from
  superseded,             \* history: the session cancelled last by a new request
  lastEvent               \* history: "rejected" after a rejected request

serialVars == <<serialConnected, portRef, readerRef, bufferRef, loopCoeffs, sentCommands,
               closeCall>>
chanVars == <<thermistors, calibrationCoeffs, chartData>>
capVars == <<calibrationLog, calibrationPoints, measuredTempInput, averagingTime,
             averagingInProgress, averagingIntervalRef, averagingTimeoutRef>>
rtVars == <<intervals, timeouts, sessions, nextTimer, mounted, now>>
netVars == <<logFetch, serverLog, posts, coeffFetches>>
histVars == <<received, delivered, captures, lastBuilt, superseded, lastEvent>>
vars == <<serialVars, chanVars, capVars, rtVars, netVars, histVars>>

\* the value '' of the reference temperature field
EmptyField == [n |-> 0, d |-> -1]

(* --------------------------- temperatures ----------------------------- *)
TempZero == [kind |-> "zero", r |-> Num(0), c |-> "none"]
TempNaN == [kind |-> "nan", r |-> NaN, c |-> "none"]
TempAbsent == [kind |-> "absent", r |-> NaN, c |-> "none"]

\* let tempC = 0; if (R > 0 && coeff) tempC = 1/(A + B lnR + C lnR^2 + D lnR^3) - 273.15
ConvertTemp(R, coeff) ==
  IF NumGt0(R) /\ coeff # "none" THEN [kind |-> "conv", r |-> R, c |-> coeff]
  ELSE TempZero

(* -------------------------- telemetry parser -------------------------- *)
EmptyMap == [x \in {} |-> NaN]

\* a parser that gives up at the first token it cannot use
RECURSIVE BuildMapStopAtBad(_, _)
BuildMapStopAtBad(tokens, map) ==
  IF tokens = <<>> THEN map
  ELSE LET parts == Split(Head(tokens), ":")
           channel == ParseInt(parts[1])
           value == ParseFloat(parts[2])
       IN  IF Len(parts) = 2 /\ ~IsNaN(channel) /\ ~IsNaN(value)
           THEN BuildMapStopAtBad(Tail(tokens), (channel.n :> value) @@ map)
           ELSE map

\* a parser that keeps the first value it saw for a channel
RECURSIVE BuildMapFirstWins(_, _)
BuildMapFirstWins(tokens, map) ==
  IF tokens = <<>> THEN map
  ELSE LET parts == Split(Head(tokens), ":")
           channel == ParseInt(parts[1])
           value == ParseFloat(parts[2])
           next == IF Len(parts) = 2 /\ ~IsNaN(channel) /\ ~IsNaN(value)
                   THEN map @@ (channel.n :> value)
                   ELSE map
       IN  BuildMapFirstWins(Tail(tokens), next)

\* tokens.forEach(token => { ... dataMap[channel] = value })
RECURSIVE BuildMap(_, _)
BuildMap(tokens, map) ==
  IF tokens = <<>> THEN map
  ELSE LET parts == Split(Head(tokens), ":")
           channel == ParseInt(parts[1])
           value == ParseFloat(parts[2])
           next == IF Len(parts) = 2 /\ ~IsNaN(channel) /\ ~IsNaN(value)
                   THEN (channel.n :> value) @@ map
                   ELSE map
       IN  BuildMap(Tail(tokens), next)

ParseLine(trimmed) == BuildMap(Split(trimmed, ";"), EmptyMap)

\* a filter that lets boot noise through
IsIgnoredLineBlankOnly(line) == Trim(line) = <<>>

\* a line that updateSensorData returns on without touching any state
IsIgnoredLine(line) ==
  LET trimmed == Trim(line) IN trimmed = <<>> \/ StartsWith(trimmed, <<"e", "t", "s">>)

(* ---------------------------- channel store --------------------------- *)
\* a store that updates a channel whether or not it is active
UpdateThermistorAlways(t, dataMap, coeffs) ==
  LET channel == t.id + ChannelOffset
  IN  IF channel \in DOMAIN dataMap
      THEN [t EXCEPT !.resistance = dataMap[channel],
                     !.temperature = ConvertTemp(t.resistance, coeffs[channel])]
      ELSE [t EXCEPT !.resistance = NaN, !.temperature = TempNaN]

\* a store that keeps the reading of a channel the line does not carry
UpdateThermistorStale(t, dataMap, coeffs) ==
  IF ~t.active THEN t
  ELSE LET channel == t.id + ChannelOffset
       IN  IF channel \in DOMAIN dataMap
           THEN [t EXCEPT !.resistance = dataMap[channel],
                          !.temperature = ConvertTemp(t.resistance, coeffs[channel])]
           ELSE t

\* the value the map callback of setThermistors returns for one thermistor
UpdateThermistor(t, dataMap, coeffs) ==
  IF ~t.active THEN t
  ELSE LET channel == t.id + ChannelOffset
       IN  IF channel \in DOMAIN dataMap
           THEN [t EXCEPT !.resistance = dataMap[channel],
                          !.temperature = ConvertTemp(t.resistance, coeffs[channel])]
           ELSE [t EXCEPT !.resistance = NaN, !.temperature = TempNaN]

\* a history that is never trimmed
PushChartUntrimmed(prev, newPoint) == Append(prev, newPoint)

\* const newData = [...prev, newPoint]; if (newData.length > 500) newData.shift()
PushChart(prev, newPoint) ==
  LET newData == Append(prev, newPoint)
  IN  IF Len(newData) > HistoryCap THEN Tail(newData) ELSE newData

\* an update that stores the line for thermistors 1 and 2 only
UpdateSensorDataTorn(line, st, coeffs, timestamp) ==
  IF IsIgnoredLine(line) THEN st
  ELSE LET dataMap == ParseLine(Trim(line))
           updated == [i \in Channels |->
                         IF i <= 2 THEN UpdateThermistor(st.thermistors[i], dataMap, coeffs)
                         ELSE st.thermistors[i]]
           newPoint == [timestamp |-> timestamp,
                        vals |-> [i \in Channels |->
                                    IF st.thermistors[i].active THEN updated[i].temperature
                                    ELSE TempAbsent]]
       IN  [thermistors |-> updated, chartData |-> PushChart(st.chartData, newPoint)]

\* updateSensorData(line) applied to the pair [thermistors, chartData]
UpdateSensorData(line, st, coeffs, timestamp) ==
  IF IsIgnoredLine(line) THEN st
  ELSE LET dataMap == ParseLine(Trim(line))
           updated == [i \in Channels |-> UpdateThermistor(st.thermistors[i], dataMap, coeffs)]
           newPoint == [timestamp |-> timestamp,
                        vals |-> [i \in Channels |->
                                    IF st.thermistors[i].active THEN updated[i].temperature
                                    ELSE TempAbsent]]
       IN  [thermistors |-> updated, chartData |-> PushChart(st.chartData, newPoint)]

\* lines.forEach(line => updateSensorData(line)); Date.now() advances by one per line
RECURSIVE ProcessLines(_, _, _, _)
ProcessLines(lines, st, coeffs, t0) ==
  IF lines = <<>> THEN st
  ELSE ProcessLines(Tail(lines), UpdateSensorData(Head(lines), st, coeffs, t0 + 1),
                    coeffs, t0 + 1)

(* ----------------------------- line framer ---------------------------- *)
\* const lines = bufferRef.current.split("\n")
FrameSplit(buffer) == Split(buffer, NL)

FrameTailDropped(lines) == <<>>

\* bufferRef.current = lines.pop() || ""
FrameTail(lines) == lines[Len(lines)]

\* what is left of lines after lines.pop()
FrameComplete(lines) == SubSeq(lines, 1, Len(lines) - 1)

\* history records before any capture
NoSession == [id |-> 0, count |-> 0, sum |-> [i \in Channels |-> Num(0)]]
NoBuilt == [entry |-> [calibrationNumber |-> 0, time |-> 0, measuredTemperature |-> NaN,
                       r |-> [i \in Channels |-> NaN]],
            logLen |-> 0, session |-> 0, obs |-> <<>>, active |-> [i \in Channels |-> FALSE]]

(* ------------------------------- Init --------------------------------- *)
InitCoeffs == [ch \in HardwareChannels |-> "initial"]

\* the page after mount, the persistence collaborator holding log
\* no closeSerialPort() call is in progress
NoCloseCall == [pc |-> "idle", caller |-> "none"]

InitServing(log) ==
  /\ thermistors = [i \in Channels |->
       [id |-> i, resistance |-> Num(0), temperature |-> TempZero, active |-> TRUE]]
  /\ calibrationCoeffs = InitCoeffs
  /\ chartData = <<>>
  /\ calibrationLog = <<>>
  /\ calibrationPoints = <<>>
  /\ measuredTempInput = EmptyField
  /\ averagingTime = 0
  /\ averagingInProgress = FALSE
  /\ serialConnected = FALSE
  /\ portRef = "null"
  /\ readerRef = "null"
  /\ bufferRef = <<>>
  /\ averagingIntervalRef = 0
  /\ averagingTimeoutRef = 0
  /\ loopCoeffs = InitCoeffs
  /\ closeCall = NoCloseCall
  /\ sentCommands = <<>>
  /\ intervals = {}
  /\ timeouts = {}
  /\ sessions = EmptyMap
  /\ nextTimer = 0
  /\ mounted = TRUE
  /\ now = 0
  /\ logFetch = [state |-> "sent", data |-> <<>>]
  /\ serverLog = log
  /\ posts = <<>>
  /\ coeffFetches = 0
  /\ received = <<>>
  /\ delivered = <<>>
  /\ captures = 0
  /\ lastBuilt = NoBuilt
  /\ superseded = NoSession
  /\ lastEvent = "mount"

Init == InitServing(<<>>)

(* --------------------------- serial transport ------------------------- *)
StartCommand == <<"2","9",",","3","0",",","3","1",",","3","2",";",
                  "1","0",",","1","0",",","1",",","0", NL>>

\* an openSerialPort that starts reading without sending the start command
OpenSerialPortSilent ==
  /\ mounted /\ ~serialConnected
  /\ portRef' = "port"
  /\ serialConnected' = TRUE
  /\ readerRef' = "reader"
  /\ loopCoeffs' = calibrationCoeffs
  /\ lastEvent' = "step"
  /\ UNCHANGED <<bufferRef, closeCall, sentCommands, chanVars, capVars, rtVars, netVars,
                 received, delivered, captures, lastBuilt, superseded>>

\* handleConnectPort -> openSerialPort up to the first reader.read()
OpenSerialPort ==
  /\ mounted /\ ~serialConnected
  /\ portRef' = "port"
  /\ serialConnected' = TRUE
  /\ sentCommands' = Append(sentCommands, StartCommand)
  /\ readerRef' = "reader"
  /\ loopCoeffs' = calibrationCoeffs
  /\ closeCall' = closeCall
  /\ lastEvent' = "step"
  /\ UNCHANGED <<bufferRef, chanVars, capVars, rtVars, netVars, received, delivered, captures, lastBuilt, superseded>>

\* one turn of the read loop of openSerialPort: a chunk arrives from reader.read()
ReadChunk(value) ==
  /\ readerRef = "reader"
  /\ received' = received \o value
  /\ lastEvent' = "step"
  /\ IF value = <<>>
     THEN UNCHANGED <<bufferRef, thermistors, chartData, now, delivered>>
     ELSE LET lines == FrameSplit(bufferRef \o value)
              complete == FrameComplete(lines)
              st == ProcessLines(complete,
                                 [thermistors |-> thermistors, chartData |-> chartData],
                                 loopCoeffs, now)
          IN  /\ bufferRef' = FrameTail(lines)
              /\ thermistors' = st.thermistors
              /\ chartData' = st.chartData
              /\ now' = now + Len(complete)
              /\ delivered' = delivered \o complete
  /\ UNCHANGED <<serialConnected, portRef, readerRef, loopCoeffs, closeCall, sentCommands,
                 calibrationCoeffs, capVars, intervals, timeouts, sessions, nextTimer,
                 mounted, netVars, captures, lastBuilt, superseded>>

(* ----------------------------- operator UI ---------------------------- *)
DigitChar(k) ==
  CASE k = 0 -> "0" [] k = 1 -> "1" [] k = 2 -> "2" [] k = 3 -> "3" [] k = 4 -> "4"
    [] k = 5 -> "5" [] k = 6 -> "6" [] k = 7 -> "7" [] k = 8 -> "8" [] k = 9 -> "9"

\* (n).toString() for a natural number
RECURSIVE IntText(_)
IntText(n) == IF n < 10 THEN <<DigitChar(n)>> ELSE IntText(n \div 10) \o <<DigitChar(n % 10)>>

\* Array.prototype.join(",")
RECURSIVE JoinComma(_)
JoinComma(parts) ==
  IF parts = <<>> THEN <<>>
  ELSE IF Len(parts) = 1 THEN parts[1]
  ELSE parts[1] \o <<",">> \o JoinComma(Tail(parts))

\* updated.filter(t => t.active).map(t => (t.id + 28).toString())
RECURSIVE ActiveChannelTexts(_, _)
ActiveChannelTexts(ths, i) ==
  IF i > NumChannels THEN <<>>
  ELSE (IF ths[i].active THEN <<IntText(ths[i].id + ChannelOffset)>> ELSE <<>>)
       \o ActiveChannelTexts(ths, i + 1)

\* a command that lists the logical ids of the active channels
ToggleCommandLogicalIds(ths) ==
  JoinComma(ActiveChannelTexts([i \in Channels |-> [ths[i] EXCEPT !.id = @ - ChannelOffset]], 1))
  \o <<";", "1", ";", "1">>

\* const command = activeChannels.join(",") + ";1;1"
ToggleCommand(ths) == JoinComma(ActiveChannelTexts(ths, 1)) \o <<";", "1", ";", "1">>

\* sendCommand(command): written only when the port is held and writable
SendCommand(command) ==
  IF portRef = "port" THEN Append(sentCommands, command \o <<NL>>) ELSE sentCommands

\* the controls are rendered only while serialConnected
ControlsShown == mounted /\ serialConnected

AnyActive(ths) == \E i \in Channels : ths[i].active

\* <Button disabled={averagingInProgress || !thermistors.some(t => t.active)}>
CalibrateDisabled == averagingInProgress \/ ~AnyActive(thermistors)

\* the useEffect that copies thermistors into thermistorsRef after every render
thermistorsRef == thermistors

\* onChange of the "Measured Temperature" field: setMeasuredTempInput(Number(value))
SetMeasuredTemp(v) ==
  /\ ControlsShown
  /\ measuredTempInput' = v
  /\ lastEvent' = "step"
  /\ UNCHANGED <<serialVars, chanVars, calibrationLog, calibrationPoints, averagingTime,
                 averagingInProgress, averagingIntervalRef, averagingTimeoutRef,
                 rtVars, netVars, received, delivered, captures, lastBuilt, superseded>>

\* onChange of the "Averaging Time" field
SetAveragingTime(seconds) ==
  /\ ControlsShown
  /\ averagingTime' = seconds
  /\ lastEvent' = "step"
  /\ UNCHANGED <<serialVars, chanVars, calibrationLog, calibrationPoints, measuredTempInput,
                 averagingInProgress, averagingIntervalRef, averagingTimeoutRef,
                 rtVars, netVars, received, delivered, captures, lastBuilt, superseded>>

handleThermistorToggle(id) ==
  /\ ControlsShown
  /\ LET updated == [i \in Channels |->
                       IF thermistors[i].id = id
                       THEN [thermistors[i] EXCEPT !.active = ~thermistors[i].active]
                       ELSE thermistors[i]]
     IN  /\ thermistors' = updated
         /\ sentCommands' = SendCommand(ToggleCommand(updated))
  /\ lastEvent' = "step"
  /\ UNCHANGED <<serialConnected, portRef, readerRef, bufferRef, loopCoeffs, closeCall,
                 calibrationCoeffs, chartData, capVars, rtVars, netVars,
                 received, delivered, captures, lastBuilt, superseded>>

(* ------------------------- capture controller ------------------------- *)
Zero4 == [i \in Channels |-> Num(0)]

\* Number(measuredTempInput)
NumberOf(x) == IF x = EmptyField THEN Num(0) ELSE x

\* measuredTempInput === '' || isNaN(Number(measuredTempInput)), then no active thermistor
RequestInvalid ==
  \/ measuredTempInput = EmptyField
  \/ IsNaN(NumberOf(measuredTempInput))
  \/ ~AnyActive(thermistors)

\* thermistorsRef.current.filter(t => t.active).map(t => ({ ... }))
RECURSIVE MarkerPoints(_, _, _)
MarkerPoints(ths, timestamp, i) ==
  IF i > NumChannels THEN <<>>
  ELSE (IF ths[i].active
        THEN <<[timestamp |-> timestamp, temperature |-> ths[i].temperature,
                thermistorId |-> ths[i].id, resistance |-> ths[i].resistance]>>
        ELSE <<>>)
       \o MarkerPoints(ths, timestamp, i + 1)

\* averaged path: [...prev, ...newCalibrationPoints], one shift() when longer than 500
PushMarkersAveraged(prev, newPoints) ==
  LET newCalibrations == prev \o newPoints
  IN  IF Len(newCalibrations) > HistoryCap THEN Tail(newCalibrations) ELSE newCalibrations

\* instant path: setCalibrationPoints(prev => [...prev, ...newCalibrationPoints])
PushMarkersInstant(prev, newPoints) == prev \o newPoints

TimersNotCleared(live, ref) == live

\* the timers a request clears before it starts: both refs, when set
TimersAfterClear(live, ref) == IF ref # 0 THEN live \ {ref} ELSE live

\* accumulators shared with the session that is being replaced
NewSessionInheriting(timestamp) ==
  LET old == IF averagingTimeoutRef \in DOMAIN sessions
             THEN sessions[averagingTimeoutRef]
             ELSE [sum |-> [i \in Channels |-> Num(0)], count |-> 0]
  IN  [sum |-> old.sum, count |-> old.count,
       log |-> calibrationLog, temp |-> measuredTempInput, timestamp |-> timestamp,
       obs |-> <<>>]

\* the closure variables of a new averaging request
NewSession(timestamp) ==
  [sum |-> Zero4, count |-> 0,
   log |-> calibrationLog, temp |-> measuredTempInput, timestamp |-> timestamp,
   obs |-> <<>>]

\* sumTi += thermistorsRef.current[i].active ? thermistorsRef.current[i].resistance : 0
SampleSum(sum, ths) ==
  [i \in Channels |-> NumAdd(sum[i], IF ths[i].active THEN ths[i].resistance ELSE Num(0))]

\* a mean taken over one tick too many
SessionAverageOffByOne(sum, count) ==
  [i \in Channels |-> IF count > 0 THEN NumDiv(sum[i], count + 1) ELSE Num(0)]

\* const avgTi = count > 0 ? sumTi / count : 0
SessionAverage(sum, count) ==
  [i \in Channels |-> IF count > 0 THEN NumDiv(sum[i], count) ELSE Num(0)]

\* an entry that records the value of every channel, active or not
NewEntryAllChannels(log, timestamp, temp, values, ths) ==
  [calibrationNumber |-> Len(log) + 1,
   time |-> timestamp,
   measuredTemperature |-> NumberOf(temp),
   r |-> [i \in Channels |-> values[i]]]

\* the CalibrationLogEntry literal of either path
NewEntry(log, timestamp, temp, values, ths) ==
  [calibrationNumber |-> Len(log) + 1,
   time |-> timestamp,
   measuredTemperature |-> NumberOf(temp),
   r |-> [i \in Channels |-> IF ths[i].active THEN values[i] ELSE Num(0)]]

\* a handler that clears the timer refs before it validates
HandleCalibrateRejectedLate ==
  /\ ControlsShown /\ ~CalibrateDisabled
  /\ RequestInvalid
  /\ intervals' = TimersAfterClear(intervals, averagingIntervalRef)
  /\ timeouts' = TimersAfterClear(timeouts, averagingTimeoutRef)
  /\ averagingIntervalRef' = 0
  /\ averagingTimeoutRef' = 0
  /\ lastEvent' = "rejected"
  /\ UNCHANGED <<serialVars, chanVars, calibrationLog, calibrationPoints, measuredTempInput,
                 averagingTime, averagingInProgress, sessions, nextTimer, mounted, now,
                 netVars, received, delivered, captures, lastBuilt, superseded>>

\* handleCalibrate returning on a validation failure
HandleCalibrateRejected ==
  /\ ControlsShown /\ ~CalibrateDisabled
  /\ RequestInvalid
  /\ lastEvent' = "rejected"
  /\ UNCHANGED <<serialVars, chanVars, capVars, rtVars, netVars, received, delivered, captures, lastBuilt, superseded>>

\* the closures that stay reachable: those of the timers still live
LiveSessions(all, live) == [id \in (DOMAIN all) \cap live |-> all[id]]

\* history: the session a request cancels, if one is pending
Superseding ==
  IF averagingTimeoutRef \in timeouts
  THEN [id |-> averagingTimeoutRef, count |-> sessions[averagingTimeoutRef].count,
        sum |-> sessions[averagingTimeoutRef].sum]
  ELSE superseded

\* handleCalibrate with Number(averagingTime) > 0
HandleCalibrateAveraged ==
  /\ ControlsShown /\ ~CalibrateDisabled
  /\ ~RequestInvalid
  /\ averagingTime > 0
  /\ LET id == nextTimer + 1
         liveIntervals == TimersAfterClear(intervals, averagingIntervalRef)
         liveTimeouts == TimersAfterClear(timeouts, averagingTimeoutRef)
     IN  /\ nextTimer' = id
         /\ averagingInProgress' = TRUE
         /\ sessions' = (id :> NewSession(captures + 1))
                        @@ LiveSessions(sessions, liveIntervals \cup liveTimeouts)
         /\ intervals' = liveIntervals \cup {id}
         /\ timeouts' = liveTimeouts \cup {id}
         /\ averagingIntervalRef' = id
         /\ averagingTimeoutRef' = id
  /\ captures' = captures + 1
  /\ superseded' = Superseding
  /\ lastEvent' = "step"
  /\ UNCHANGED <<serialVars, chanVars, calibrationLog, calibrationPoints, measuredTempInput,
                 averagingTime, mounted, now, netVars, received, delivered, lastBuilt>>

\* handleCalibrate with Number(averagingTime) = 0
HandleCalibrateInstant ==
  /\ ControlsShown /\ ~CalibrateDisabled
  /\ ~RequestInvalid
  /\ ~(averagingTime > 0)
  /\ LET timestamp == captures + 1
         newEntry == NewEntry(calibrationLog, timestamp, measuredTempInput,
                              [i \in Channels |-> thermistors[i].resistance], thermistors)
         liveIntervals == TimersAfterClear(intervals, averagingIntervalRef)
         liveTimeouts == TimersAfterClear(timeouts, averagingTimeoutRef)
     IN  /\ intervals' = liveIntervals
         /\ timeouts' = liveTimeouts
         /\ sessions' = LiveSessions(sessions, liveIntervals \cup liveTimeouts)
         /\ averagingIntervalRef' = 0
         /\ averagingTimeoutRef' = 0
         /\ calibrationPoints' =
              PushMarkersInstant(calibrationPoints, MarkerPoints(thermistorsRef, timestamp, 1))
         /\ posts' = Append(posts, newEntry)
         /\ lastBuilt' = [entry |-> newEntry, logLen |-> Len(calibrationLog),
                          session |-> 0, obs |-> <<>>,
                          active |-> [i \in Channels |-> thermistors[i].active]]
  /\ captures' = captures + 1
  /\ superseded' = Superseding
  /\ lastEvent' = "step"
  /\ UNCHANGED <<serialVars, chanVars, calibrationLog, measuredTempInput, averagingTime,
                 averagingInProgress, nextTimer, mounted, now,
                 logFetch, serverLog, coeffFetches, received, delivered>>

\* the setInterval callback of session id
SamplerTick(id) ==
  /\ id \in intervals
  /\ sessions' = [sessions EXCEPT
                    ![id].sum = SampleSum(@, thermistorsRef),
                    ![id].count = @ + 1,
                    ![id].obs = Append(@, thermistorsRef)]
  /\ lastEvent' = "step"
  /\ UNCHANGED <<serialVars, chanVars, capVars, intervals, timeouts, nextTimer, mounted, now,
                 netVars, received, delivered, captures, lastBuilt, superseded>>

\* a commit that leaves the sampler of the session running
CommitTimeoutSamplerRunning(id) ==
  /\ id \in timeouts
  /\ LET s == sessions[id]
         avg == SessionAverage(s.sum, s.count)
         newEntry == NewEntry(s.log, s.timestamp, s.temp, avg, thermistorsRef)
         liveIntervals == intervals
     IN  /\ timeouts' = timeouts \ {id}
         /\ intervals' = liveIntervals
         /\ sessions' = LiveSessions(sessions, liveIntervals \cup (timeouts \ {id}))
         /\ averagingIntervalRef' = 0
         /\ calibrationPoints' =
              PushMarkersAveraged(calibrationPoints, MarkerPoints(thermistorsRef, s.timestamp, 1))
         /\ posts' = Append(posts, newEntry)
         /\ lastBuilt' = [entry |-> newEntry, logLen |-> Len(calibrationLog),
                          session |-> id, obs |-> s.obs,
                          active |-> [i \in Channels |-> thermistorsRef[i].active]]
  /\ averagingInProgress' = FALSE
  /\ measuredTempInput' = EmptyField
  /\ lastEvent' = "step"
  /\ UNCHANGED <<serialVars, chanVars, calibrationLog, averagingTime, averagingTimeoutRef,
                 nextTimer, mounted, now, logFetch, serverLog, coeffFetches,
                 received, delivered, captures, superseded>>

\* the setTimeout callback of session id
CommitTimeout(id) ==
  /\ id \in timeouts
  /\ LET s == sessions[id]
         avg == SessionAverage(s.sum, s.count)
         newEntry == NewEntry(s.log, s.timestamp, s.temp, avg, thermistorsRef)
         liveIntervals == intervals \ {averagingIntervalRef}
     IN  /\ timeouts' = timeouts \ {id}
         /\ intervals' = liveIntervals
         /\ sessions' = LiveSessions(sessions, liveIntervals \cup (timeouts \ {id}))
         /\ averagingIntervalRef' = 0
         /\ calibrationPoints' =
              PushMarkersAveraged(calibrationPoints, MarkerPoints(thermistorsRef, s.timestamp, 1))
         /\ posts' = Append(posts, newEntry)
         /\ lastBuilt' = [entry |-> newEntry, logLen |-> Len(calibrationLog),
                          session |-> id, obs |-> s.obs,
                          active |-> [i \in Channels |-> thermistorsRef[i].active]]
  /\ averagingInProgress' = FALSE
  /\ measuredTempInput' = EmptyField
  /\ lastEvent' = "step"
  /\ UNCHANGED <<serialVars, chanVars, calibrationLog, averagingTime, averagingTimeoutRef,
                 nextTimer, mounted, now, logFetch, serverLog, coeffFetches,
                 received, delivered, captures, superseded>>

(* ------------------------ persistence collaborator -------------------- *)
RemoveAt(q, k) == SubSeq(q, 1, k - 1) \o SubSeq(q, k + 1, Len(q))

\* setThermistors(prev => prev.map(...)) of fetchCalibrationCoeffs
RecalculateTemps(ths, data) ==
  [i \in Channels |->
     IF ~ths[i].active THEN ths[i]
     ELSE [ths[i] EXCEPT
             !.temperature = ConvertTemp(ths[i].resistance, data[ths[i].id + ChannelOffset])]]

\* computeDefaultCoeffs()
computeDefaultCoeffs == [ch \in HardwareChannels |-> "default"]

\* a complete coefficient set returned by GET /coeffs
ServerCoeffs == [ch \in HardwareChannels |-> "server"]

\* saveCalibrationEntry: the POST of posts[k] answered 2xx, then the .then() of the caller
PostOk(k) ==
  /\ mounted
  /\ k \in 1..Len(posts)
  /\ posts' = RemoveAt(posts, k)
  /\ serverLog' = Append(serverLog, posts[k])
  /\ coeffFetches' = coeffFetches + 1
  /\ calibrationLog' = Append(calibrationLog, posts[k])
  /\ lastEvent' = "step"
  /\ UNCHANGED <<serialVars, chanVars, calibrationPoints, measuredTempInput, averagingTime,
                 averagingInProgress, averagingIntervalRef, averagingTimeoutRef, rtVars,
                 logFetch, received, delivered, captures, lastBuilt, superseded>>

\* a failure handler that also takes back the markers of the failed capture
PostFailRollback(k) ==
  /\ mounted
  /\ k \in 1..Len(posts)
  /\ posts' = RemoveAt(posts, k)
  /\ coeffFetches' = coeffFetches + 1
  /\ averagingInProgress' = FALSE
  /\ calibrationPoints' = SelectSeq(calibrationPoints, LAMBDA pt : pt.timestamp # posts[k].time)
  /\ lastEvent' = "step"
  /\ UNCHANGED <<serialVars, chanVars, calibrationLog, measuredTempInput,
                 averagingTime, averagingIntervalRef, averagingTimeoutRef, rtVars,
                 logFetch, serverLog, received, delivered, captures, lastBuilt, superseded>>

\* saveCalibrationEntry: the POST of posts[k] fails (non-2xx or network error); the
\* catch block runs, the promise resolves, and the .then() of the caller runs
PostFail(k) ==
  /\ mounted
  /\ k \in 1..Len(posts)
  /\ posts' = RemoveAt(posts, k)
  /\ coeffFetches' = coeffFetches + 1
  /\ averagingInProgress' = FALSE
  /\ lastEvent' = "step"
  /\ UNCHANGED <<serialVars, chanVars, calibrationLog, calibrationPoints, measuredTempInput,
                 averagingTime, averagingIntervalRef, averagingTimeoutRef, rtVars,
                 logFetch, serverLog, received, delivered, captures, lastBuilt, superseded>>

\* fetchCalibrationCoeffs: the response arrives; data is the set that is installed
\* (the server's when it is complete, computeDefaultCoeffs() otherwise)
CoeffsResponse(data) ==
  /\ mounted
  /\ coeffFetches > 0
  /\ coeffFetches' = coeffFetches - 1
  /\ calibrationCoeffs' = data
  /\ thermistors' = RecalculateTemps(thermistors, data)
  /\ lastEvent' = "step"
  /\ UNCHANGED <<serialVars, chartData, capVars, rtVars, logFetch, serverLog, posts,
                 received, delivered, captures, lastBuilt, superseded>>

\* the bodies GET /coeffs may answer with: for each channel a coefficient set
\* ("server") or nothing that passes the test !data[channel] ("none")
CoeffBodies == [HardwareChannels -> {"server", "none"}]

\* a fallback that fills in the missing channels only
InstalledCoeffsPerChannel(ok, body) ==
  [ch \in HardwareChannels |-> IF ok /\ body[ch] # "none" THEN body[ch] ELSE "default"]

\* fetchCalibrationCoeffs: the set that is installed for a response
InstalledCoeffs(ok, body) ==
  LET data == IF ok THEN body ELSE [ch \in HardwareChannels |-> "none"]
  IN  IF data[29] = "none" \/ data[30] = "none" \/ data[31] = "none" \/ data[32] = "none"
      THEN computeDefaultCoeffs
      ELSE data

\* fetchCalibrationCoeffs: GET /coeffs is answered with status ok and body
FetchCoeffsAnswered(ok, body) ==
  /\ mounted
  /\ coeffFetches > 0
  /\ coeffFetches' = coeffFetches - 1
  /\ calibrationCoeffs' = InstalledCoeffs(ok, body)
  /\ thermistors' = RecalculateTemps(thermistors, calibrationCoeffs')
  /\ lastEvent' = IF ~ok THEN "coeffsNotOk"
                  ELSE IF \E ch \in HardwareChannels : body[ch] = "none" THEN "coeffsLacking"
                  ELSE "coeffsServed"
  /\ UNCHANGED <<serialVars, chartData, capVars, rtVars, logFetch, serverLog, posts,
                 received, delivered, captures, lastBuilt, superseded>>

\* fetchCalibrationCoeffs: fetch rejects, the catch block only logs
CoeffsError ==
  /\ mounted
  /\ coeffFetches > 0
  /\ coeffFetches' = coeffFetches - 1
  /\ lastEvent' = "step"
  /\ UNCHANGED <<serialVars, chanVars, capVars, rtVars, logFetch, serverLog, posts,
                 received, delivered, captures, lastBuilt, superseded>>

\* the collaborator answers the GET /log issued on mount with the log it holds then
LogFetchServed ==
  /\ mounted
  /\ logFetch.state = "sent"
  /\ logFetch' = [state |-> "replied", data |-> serverLog]
  /\ lastEvent' = "step"
  /\ UNCHANGED <<serialVars, chanVars, capVars, rtVars, serverLog, posts, coeffFetches,
                 received, delivered, captures, lastBuilt, superseded>>

\* .then((data) => setCalibrationLog(data))
LogFetchResponse ==
  /\ mounted
  /\ logFetch.state = "replied"
  /\ logFetch' = [state |-> "done", data |-> <<>>]
  /\ calibrationLog' = logFetch.data
  /\ lastEvent' = "step"
  /\ UNCHANGED <<serialVars, chanVars, calibrationPoints, measuredTempInput, averagingTime,
                 averagingInProgress, averagingIntervalRef, averagingTimeoutRef, rtVars,
                 serverLog, posts, coeffFetches, received, delivered, captures, lastBuilt, superseded>>

\* .catch(console.error)
LogFetchError ==
  /\ mounted
  /\ logFetch.state \in {"sent", "replied"}
  /\ logFetch' = [state |-> "done", data |-> <<>>]
  /\ lastEvent' = "step"
  /\ UNCHANGED <<serialVars, chanVars, capVars, rtVars, serverLog, posts, coeffFetches,
                 received, delivered, captures, lastBuilt, superseded>>

(* ------------------------------ teardown ------------------------------ *)
\* a cleanup that closes the port and leaves the capture timers running
UnmountKeepingTimers ==
  /\ mounted
  /\ mounted' = FALSE
  /\ readerRef' = "null"
  /\ portRef' = "null"
  /\ lastEvent' = "step"
  /\ UNCHANGED <<serialConnected, bufferRef, loopCoeffs, closeCall, sentCommands, chanVars, capVars,
                 intervals, timeouts, sessions, nextTimer, now, netVars, received, delivered,
                 captures, lastBuilt, superseded>>

\* the cleanup of the mount effect: closeSerialPort(), clearInterval, clearTimeout;
\* closeSerialPort() leaves a port whose readable stream is gone as it is
Unmount ==
  /\ mounted
  /\ mounted' = FALSE
  /\ readerRef' = "null"
  /\ portRef' = IF portRef = "lost" THEN "lost" ELSE "null"
  /\ intervals' = TimersAfterClear(intervals, averagingIntervalRef)
  /\ timeouts' = TimersAfterClear(timeouts, averagingTimeoutRef)
  /\ sessions' = LiveSessions(sessions, TimersAfterClear(intervals, averagingIntervalRef)
                                          \cup TimersAfterClear(timeouts, averagingTimeoutRef))
  /\ lastEvent' = "step"
  /\ UNCHANGED <<serialConnected, bufferRef, loopCoeffs, closeCall, sentCommands, chanVars, capVars,
                 nextTimer, now, netVars, received, delivered, captures, lastBuilt, superseded>>

(* ------------------------ closing the transport ----------------------- *)
\* closeSerialPort() is followed through its awaits: closeCall.pc is "cancel"
\* while reader.cancel() is pending (readerRef holds the reader, "cancelling"),
\* "close" while port.close() is pending (portRef holds the port, "closing").
\* A port whose device is gone ("lost") has no readable stream.

\* the position closeSerialPort() reaches once the reader is dealt with
PortStep(port) == IF port = "port" THEN "close" ELSE "done"

\* the caller's continuation, navigate(): the page is unmounted, and the cleanup
\* of the mount effect finds nothing to close and clears the two timers
LeavePage(done) ==
  /\ mounted' = (mounted /\ ~done)
  /\ intervals' = IF done THEN TimersAfterClear(intervals, averagingIntervalRef) ELSE intervals
  /\ timeouts' = IF done THEN TimersAfterClear(timeouts, averagingTimeoutRef) ELSE timeouts
  /\ sessions' = IF done
                 THEN LiveSessions(sessions, TimersAfterClear(intervals, averagingIntervalRef)
                                               \cup TimersAfterClear(timeouts, averagingTimeoutRef))
                 ELSE sessions

\* closeSerialPort() called by caller, up to its first await
BeginClose(caller) ==
  /\ mounted
  /\ closeCall.pc = "idle"
  /\ LET pc == IF readerRef # "null" THEN "cancel" ELSE PortStep(portRef)
     IN  /\ closeCall' = IF pc = "done" THEN NoCloseCall ELSE [pc |-> pc, caller |-> caller]
         /\ readerRef' = IF pc = "cancel" THEN "cancelling" ELSE readerRef
         /\ portRef' = IF pc = "close" THEN "closing" ELSE portRef
         /\ LeavePage(pc = "done")
  /\ lastEvent' = "step"
  /\ UNCHANGED <<serialConnected, bufferRef, loopCoeffs, sentCommands, chanVars, capVars,
                 nextTimer, now, netVars, received, delivered, captures, lastBuilt, superseded>>

\* onLogout of the top bar: closeSerialPort().then(() => { ...; navigate('/') })
onLogout == BeginClose("logout")

\* await closeSerialPort(); navigate('/dashboard'); window.location.reload()
handleReturnToDashboard == BeginClose("return")

\* a reader.cancel() whose rejection ends the whole of closeSerialPort()
CancelSettledAborting(ok) ==
  /\ closeCall.pc = "cancel"
  /\ readerRef' = IF ok THEN "null" ELSE readerRef
  /\ closeCall' = IF ok /\ PortStep(portRef) = "close" THEN [closeCall EXCEPT !.pc = "close"]
                  ELSE NoCloseCall
  /\ portRef' = IF ok /\ PortStep(portRef) = "close" THEN "closing" ELSE portRef
  /\ LeavePage(~ok \/ PortStep(portRef) = "done")
  /\ lastEvent' = IF ok THEN "step" ELSE "cancelFailed"
  /\ UNCHANGED <<serialConnected, bufferRef, loopCoeffs, sentCommands, chanVars, capVars,
                 nextTimer, now, netVars, received, delivered, captures, lastBuilt, superseded>>

\* await readerRef.current.cancel() settles (ok: resolved; otherwise the inner
\* catch warns); readerRef.current = null; then the port is tested
CancelSettled(ok) ==
  /\ closeCall.pc = "cancel"
  /\ readerRef' = "null"
  /\ closeCall' = IF PortStep(portRef) = "close" THEN [closeCall EXCEPT !.pc = "close"]
                  ELSE NoCloseCall
  /\ portRef' = IF PortStep(portRef) = "close" THEN "closing" ELSE portRef
  /\ LeavePage(PortStep(portRef) = "done")
  /\ lastEvent' = IF ok THEN "step" ELSE "cancelFailed"
  /\ UNCHANGED <<serialConnected, bufferRef, loopCoeffs, sentCommands, chanVars, capVars,
                 nextTimer, now, netVars, received, delivered, captures, lastBuilt, superseded>>

\* await portRef.current.close() settles (ok: resolved; otherwise the inner catch
\* warns); portRef.current = null; setSerialConnected(false); the caller goes on
CloseSettled(ok) ==
  /\ closeCall.pc = "close"
  /\ portRef' = "null"
  /\ serialConnected' = FALSE
  /\ closeCall' = NoCloseCall
  /\ LeavePage(TRUE)
  /\ lastEvent' = IF ok THEN "step" ELSE "closeFailed"
  /\ UNCHANGED <<readerRef, bufferRef, loopCoeffs, sentCommands, chanVars, capVars,
                 nextTimer, now, netVars, received, delivered, captures, lastBuilt, superseded>>

\* a page whose line buffer outlives the component
MountPageKeepingTail ==
  /\ ~mounted
  /\ closeCall.pc = "idle"
  /\ posts = <<>> /\ coeffFetches = 0
  /\ mounted' = TRUE
  /\ thermistors' = [i \in Channels |->
       [id |-> i, resistance |-> Num(0), temperature |-> TempZero, active |-> TRUE]]
  /\ calibrationCoeffs' = InitCoeffs
  /\ chartData' = <<>>
  /\ calibrationLog' = <<>>
  /\ calibrationPoints' = <<>>
  /\ measuredTempInput' = EmptyField
  /\ averagingTime' = 0
  /\ averagingInProgress' = FALSE
  /\ serialConnected' = FALSE
  /\ portRef' = "null"
  /\ readerRef' = "null"
  /\ averagingIntervalRef' = 0
  /\ averagingTimeoutRef' = 0
  /\ logFetch' = [state |-> "sent", data |-> <<>>]
  /\ lastEvent' = "mount"
  /\ UNCHANGED <<bufferRef, loopCoeffs, closeCall, sentCommands, intervals, timeouts, sessions,
                 nextTimer, now, serverLog, posts, coeffFetches, received, delivered,
                 captures, lastBuilt, superseded>>

\* the route renders a new CalibrationPage after the previous one was left:
\* every useState and useRef starts from its initial value and the mount effect
\* asks for the log again; the device, the server and the event loop are what
\* they were
MountPage ==
  /\ ~mounted
  /\ closeCall.pc = "idle"
  /\ posts = <<>> /\ coeffFetches = 0
  /\ mounted' = TRUE
  /\ thermistors' = [i \in Channels |->
       [id |-> i, resistance |-> Num(0), temperature |-> TempZero, active |-> TRUE]]
  /\ calibrationCoeffs' = InitCoeffs
  /\ chartData' = <<>>
  /\ calibrationLog' = <<>>
  /\ calibrationPoints' = <<>>
  /\ measuredTempInput' = EmptyField
  /\ averagingTime' = 0
  /\ averagingInProgress' = FALSE
  /\ serialConnected' = FALSE
  /\ portRef' = "null"
  /\ readerRef' = "null"
  /\ bufferRef' = <<>>
  /\ averagingIntervalRef' = 0
  /\ averagingTimeoutRef' = 0
  /\ logFetch' = [state |-> "sent", data |-> <<>>]
  /\ lastEvent' = "mount"
  /\ UNCHANGED <<loopCoeffs, closeCall, sentCommands, intervals, timeouts, sessions,
                 nextTimer, now, serverLog, posts, coeffFetches, received, delivered,
                 captures, lastBuilt, superseded>>

(* ------------- client-side fit (variant src/unnamed/part_003) --------- *)
\* In this variant of the page there is no calibrationCoeffs state: the
\* coefficients of a channel are computed from the calibration log each time a
\* temperature is converted.  A fit is kept as the points it was computed from;
\* the logarithms and the elimination are not computed.
Kelvin == Rat(27315, 100)

\* standard_resistances, standard_temperatures
StandardPoints ==
  << [resistance |-> Rat(30173, 10), temperature |-> NumAdd(Num(60), Kelvin)],
     [resistance |-> Rat(12651, 10), temperature |-> NumAdd(Num(90), Kelvin)],
     [resistance |-> Rat(9743, 10), temperature |-> NumAdd(Num(100), Kelvin)],
     [resistance |-> Rat(5338, 10), temperature |-> NumAdd(Num(125), Kelvin)] >>

\* calibrationLog.forEach(log => { ... if (r > 0) points.push(...) })
RECURSIVE LogPoints(_, _)
LogPoints(channel, log) ==
  IF log = <<>> THEN <<>>
  ELSE LET r == IF channel \in HardwareChannels
                THEN Head(log).r[channel - ChannelOffset] ELSE Num(0)
       IN  (IF NumGt0(r)
            THEN <<[resistance |-> r,
                    temperature |-> NumAdd(Head(log).measuredTemperature, Kelvin)]>>
            ELSE <<>>)
           \o LogPoints(channel, Tail(log))

\* a selection that fills up the real points with standard ones
FitPointsPadded(channel, log) ==
  LET points == LogPoints(channel, log)
  IN  IF Len(points) < 4
      THEN points \o SubSeq(StandardPoints, Len(points) + 1, 4)
      ELSE SubSeq(points, Len(points) - 3, Len(points))

\* the points handed to solveLinearSystem: points[i] = standard (i < 4) when fewer
\* than four were collected, points.splice(0, points.length - 4) otherwise
FitPoints(channel, log) ==
  LET points == LogPoints(channel, log)
  IN  IF Len(points) < 4 THEN StandardPoints
      ELSE SubSeq(points, Len(points) - 3, Len(points))

\* solveLinearSystem throws "Matrix is singular or nearly singular": with rows
\* [1, lnR, lnR^2, lnR^3] a pivot is exactly zero when two points have the same
\* resistance (pivots that are only close to zero are not modelled)
SolveThrows(points) ==
  \E i, j \in 1..Len(points) : i < j /\ points[i].resistance = points[j].resistance

\* computeCoeffs(channel, calibrationLog)
computeCoeffs(channel, log) ==
  LET points == FitPoints(channel, log)
  IN  [points |-> points, singular |-> SolveThrows(points)]

\* openSerialPort of the variant: the read loop keeps the updateSensorData of the
\* render that started it, and with it that render's calibrationLog
OpenSerialPortFitting ==
  /\ mounted /\ ~serialConnected
  /\ portRef' = "port"
  /\ serialConnected' = TRUE
  /\ sentCommands' = Append(sentCommands, StartCommand)
  /\ readerRef' = "reader"
  /\ loopCoeffs' = [ch \in HardwareChannels |-> computeCoeffs(ch, calibrationLog)]
  /\ closeCall' = closeCall
  /\ lastEvent' = "step"
  /\ UNCHANGED <<bufferRef, chanVars, capVars, rtVars, netVars, received, delivered, captures, lastBuilt, superseded>>

\* the map callback of setThermistors in the variant: the new value is converted
UpdateThermistorFitting(t, dataMap, coeffs) ==
  IF ~t.active THEN t
  ELSE LET channel == t.id + ChannelOffset
       IN  IF channel \in DOMAIN dataMap
           THEN [t EXCEPT !.resistance = dataMap[channel],
                          !.temperature =
                            IF NumGt0(dataMap[channel])
                            THEN [kind |-> "conv", r |-> dataMap[channel],
                                  c |-> coeffs[channel].points]
                            ELSE TempZero]
           ELSE [t EXCEPT !.resistance = NaN, !.temperature = TempNaN]

\* computeCoeffs throws inside the map callback for some thermistor
FitThrows(ths, dataMap, coeffs) ==
  \E channel \in DOMAIN dataMap :
    \E i \in Channels :
      /\ ths[i].active
      /\ ths[i].id + ChannelOffset = channel
      /\ coeffs[channel].singular

\* updateSensorData(line) of the variant; crashed once an updater has thrown
UpdateSensorDataFitting(line, st, coeffs, timestamp) ==
  IF st.crashed \/ IsIgnoredLine(line) THEN st
  ELSE LET dataMap == ParseLine(Trim(line))
           updated == [i \in Channels |->
                         UpdateThermistorFitting(st.thermistors[i], dataMap, coeffs)]
           newPoint == [timestamp |-> timestamp,
                        vals |-> [i \in Channels |->
                                    IF st.thermistors[i].active THEN updated[i].temperature
                                    ELSE TempAbsent]]
       IN  IF FitThrows(st.thermistors, dataMap, coeffs)
           THEN [st EXCEPT !.crashed = TRUE]
           ELSE [thermistors |-> updated, chartData |-> PushChart(st.chartData, newPoint),
                 crashed |-> FALSE]

RECURSIVE ProcessLinesFitting(_, _, _, _)
ProcessLinesFitting(lines, st, coeffs, t0) ==
  IF lines = <<>> THEN st
  ELSE ProcessLinesFitting(Tail(lines),
                           UpdateSensorDataFitting(Head(lines), st, coeffs, t0 + 1),
                           coeffs, t0 + 1)

\* one turn of the read loop of the variant.  An exception thrown by a state
\* updater is not caught by the page: the ErrorBoundary around the route shows
\* its fallback, the page is unmounted, and the cleanup of the mount effect
\* closes the port and clears the timers.
ReadChunkFitting(value) ==
  /\ readerRef = "reader"
  /\ value # <<>>
  /\ received' = received \o value
  /\ lastEvent' = "step"
  /\ LET lines == FrameSplit(bufferRef \o value)
         complete == FrameComplete(lines)
         st == ProcessLinesFitting(complete,
                                   [thermistors |-> thermistors, chartData |-> chartData,
                                    crashed |-> FALSE],
                                   loopCoeffs, now)
     IN  /\ bufferRef' = FrameTail(lines)
         /\ thermistors' = st.thermistors
         /\ chartData' = st.chartData
         /\ now' = now + Len(complete)
         /\ delivered' = delivered \o complete
         /\ mounted' = ~st.crashed
         /\ readerRef' = IF mounted' THEN readerRef ELSE "null"
         /\ portRef' = IF mounted' THEN portRef ELSE "null"
         /\ intervals' = IF mounted' THEN intervals
                         ELSE TimersAfterClear(intervals, averagingIntervalRef)
         /\ timeouts' = IF mounted' THEN timeouts
                        ELSE TimersAfterClear(timeouts, averagingTimeoutRef)
  /\ UNCHANGED <<serialConnected, loopCoeffs, closeCall, sentCommands, calibrationCoeffs, capVars,
                 sessions, nextTimer, netVars, captures, lastBuilt, superseded>>

(* -------- captures of the client-side fit (src/unnamed/part_003) ------ *)
\* In the variant each POST in flight is kept with the calibrationLog of the
\* closure that issued it, which is the log the .then() callback fits.

\* handleCalibrate with Number(averagingTime) = 0
HandleCalibrateInstantFitting ==
  /\ ControlsShown /\ ~CalibrateDisabled
  /\ ~RequestInvalid
  /\ ~(averagingTime > 0)
  /\ LET timestamp == captures + 1
         newEntry == NewEntry(calibrationLog, timestamp, measuredTempInput,
                              [i \in Channels |-> thermistors[i].resistance], thermistors)
         liveIntervals == TimersAfterClear(intervals, averagingIntervalRef)
         liveTimeouts == TimersAfterClear(timeouts, averagingTimeoutRef)
     IN  /\ intervals' = liveIntervals
         /\ timeouts' = liveTimeouts
         /\ sessions' = LiveSessions(sessions, liveIntervals \cup liveTimeouts)
         /\ averagingIntervalRef' = 0
         /\ averagingTimeoutRef' = 0
         /\ calibrationPoints' =
              PushMarkersInstant(calibrationPoints, MarkerPoints(thermistorsRef, timestamp, 1))
         /\ posts' = Append(posts, [entry |-> newEntry, closureLog |-> calibrationLog])
         /\ lastBuilt' = [entry |-> newEntry, logLen |-> Len(calibrationLog),
                          session |-> 0, obs |-> <<>>,
                          active |-> [i \in Channels |-> thermistors[i].active]]
  /\ captures' = captures + 1
  /\ superseded' = Superseding
  /\ lastEvent' = "step"
  /\ UNCHANGED <<serialVars, chanVars, calibrationLog, measuredTempInput, averagingTime,
                 averagingInProgress, nextTimer, mounted, now,
                 logFetch, serverLog, coeffFetches, received, delivered>>

\* the setTimeout callback of session id
CommitTimeoutFitting(id) ==
  /\ id \in timeouts
  /\ LET s == sessions[id]
         avg == SessionAverage(s.sum, s.count)
         newEntry == NewEntry(s.log, s.timestamp, s.temp, avg, thermistorsRef)
         liveIntervals == intervals \ {averagingIntervalRef}
     IN  /\ timeouts' = timeouts \ {id}
         /\ intervals' = liveIntervals
         /\ sessions' = LiveSessions(sessions, liveIntervals \cup (timeouts \ {id}))
         /\ averagingIntervalRef' = 0
         /\ calibrationPoints' =
              PushMarkersAveraged(calibrationPoints, MarkerPoints(thermistorsRef, s.timestamp, 1))
         /\ posts' = Append(posts, [entry |-> newEntry, closureLog |-> s.log])
         /\ lastBuilt' = [entry |-> newEntry, logLen |-> Len(calibrationLog),
                          session |-> id, obs |-> s.obs,
                          active |-> [i \in Channels |-> thermistorsRef[i].active]]
  /\ averagingInProgress' = FALSE
  /\ measuredTempInput' = EmptyField
  /\ lastEvent' = "step"
  /\ UNCHANGED <<serialVars, chanVars, calibrationLog, averagingTime, averagingTimeoutRef,
                 nextTimer, mounted, now, logFetch, serverLog, coeffFetches,
                 received, delivered, captures, superseded>>

\* setThermistors(prev => prev.map(...)) in the .then() of saveCalibrationEntry
RecalculateFitted(ths, coeffs) ==
  [i \in Channels |->
     IF ~ths[i].active THEN ths[i]
     ELSE [ths[i] EXCEPT
             !.temperature =
               IF NumGt0(ths[i].resistance)
               THEN [kind |-> "conv", r |-> ths[i].resistance,
                     c |-> coeffs[ths[i].id + ChannelOffset].points]
               ELSE TempZero]]

\* saveCalibrationEntry of posts[k] settles (ok: answered 2xx, the entry is
\* appended; otherwise the catch block clears averagingInProgress), the promise
\* resolves and the .then() of the caller recalculates the temperatures with
\* computeCoeffs(channel, calibrationLog) of its closure; a fit that throws in
\* the updater takes the page down as in ReadChunkFitting
PostSettledFitting(k, ok) ==
  /\ mounted
  /\ k \in 1..Len(posts)
  /\ posts' = RemoveAt(posts, k)
  /\ serverLog' = IF ok THEN Append(serverLog, posts[k].entry) ELSE serverLog
  /\ calibrationLog' = IF ok THEN Append(calibrationLog, posts[k].entry) ELSE calibrationLog
  /\ averagingInProgress' = IF ok THEN averagingInProgress ELSE FALSE
  /\ LET coeffs == [ch \in HardwareChannels |-> computeCoeffs(ch, posts[k].closureLog)]
     IN  /\ mounted' = ~(\E i \in Channels :
                           thermistors[i].active
                           /\ coeffs[thermistors[i].id + ChannelOffset].singular)
         /\ thermistors' = IF mounted' THEN RecalculateFitted(thermistors, coeffs)
                           ELSE thermistors
  /\ readerRef' = IF mounted' THEN readerRef ELSE "null"
  /\ portRef' = IF mounted' THEN portRef ELSE "null"
  /\ intervals' = IF mounted' THEN intervals
                  ELSE TimersAfterClear(intervals, averagingIntervalRef)
  /\ timeouts' = IF mounted' THEN timeouts
                 ELSE TimersAfterClear(timeouts, averagingTimeoutRef)
  /\ lastEvent' = "step"
  /\ UNCHANGED <<serialConnected, bufferRef, loopCoeffs, closeCall, sentCommands, calibrationCoeffs,
                 chartData, calibrationPoints, measuredTempInput, averagingTime,
                 averagingIntervalRef, averagingTimeoutRef, sessions, nextTimer, now,
                 logFetch, coeffFetches, received, delivered, captures, lastBuilt,
                 superseded>>

(* ------------------- specification: the line framer ------------------- *)
FramerAlphabet == {"x", NL}

FramerChunks ==
  {<<>>} \cup UNION {[1..k -> FramerAlphabet] : k \in 1..MaxChunkLen}

NextFramer ==
  \/ OpenSerialPort
  \/ \E value \in FramerChunks :
       /\ Len(received) + Len(value) <= MaxText
       /\ ReadChunk(value)

SpecFramer == Init /\ [][NextFramer]_vars

\* the positions of the line terminators of a text, and its k-th complete line
TerminatorPositions(text) == {i \in 1..Len(text) : text[i] = NL}

TerminatedLine(text, k) ==
  LET P == TerminatorPositions(text)
      e == CHOOSE i \in P : Cardinality({j \in P : j < i}) = k - 1
      before == {j \in P : j < e}
      b == IF before = {} THEN 0 ELSE CHOOSE j \in before : \A h \in before : h <= j
  IN  SubSeq(text, b + 1, e - 1)

TerminatedLines(text) ==
  [k \in 1..Cardinality(TerminatorPositions(text)) |-> TerminatedLine(text, k)]

\* C1: the lines handed to updateSensorData are exactly the terminated lines of the
\* concatenation of all chunks read so far, each once and in order, and the
\* retained tail is the unterminated rest, wherever the chunk boundaries fell.
C1_LinesDelivered ==
  /\ delivered = TerminatedLines(received)
  /\ LET P == TerminatorPositions(received)
         last == IF P = {} THEN 0 ELSE CHOOSE i \in P : \A j \in P : j <= i
     IN  bufferRef = Tail0(received, last + 1)

\* a line that, with its terminator, fits in no single chunk has been delivered,
\* after an earlier line
C1_Witness ==
  /\ Len(delivered) >= 2
  /\ Len(delivered[Len(delivered)]) >= MaxChunkLen

(* ---------------- specification: the capture controller --------------- *)
TextAll == <<"2", "9", ":", "2", ";", "3", "0", ":", "2", ";",
             "3", "1", ":", "2", ";", "3", "2", ":", "2", NL>>

CaptureChunks == {TextAll}
TempInputs == {Num(25)}
AveragingTimes == {0, 2}

\* capture requests, both timers, persistence responses, teardown, telemetry
NextCapture ==
  \/ OpenSerialPort
  \/ \E value \in CaptureChunks : now < MaxLines /\ ReadChunk(value)
  \/ \E v \in TempInputs : measuredTempInput # v /\ SetMeasuredTemp(v)
  \/ \E seconds \in AveragingTimes : averagingTime # seconds /\ SetAveragingTime(seconds)
  \/ HandleCalibrateRejected
  \/ captures < MaxRequests /\ HandleCalibrateAveraged
  \/ captures < MaxRequests /\ HandleCalibrateInstant
  \/ \E id \in intervals : sessions[id].count < MaxTicks /\ SamplerTick(id)
  \/ \E id \in timeouts : CommitTimeout(id)
  \/ \E k \in 1..Len(posts) : PostOk(k)
  \/ \E k \in 1..Len(posts) : PostFail(k)
  \/ Unmount

SpecCapture == Init /\ [][NextCapture]_vars

(* ---------------- specification: the calibration log ------------------ *)
\* capture requests, both timers, persistence responses and the initial log load
NextLog ==
  \/ OpenSerialPort
  \/ \E v \in TempInputs : measuredTempInput # v /\ SetMeasuredTemp(v)
  \/ \E seconds \in AveragingTimes : averagingTime # seconds /\ SetAveragingTime(seconds)
  \/ HandleCalibrateRejected
  \/ captures < MaxRequests /\ HandleCalibrateAveraged
  \/ captures < MaxRequests /\ HandleCalibrateInstant
  \/ \E id \in intervals : sessions[id].count < MaxTicks /\ SamplerTick(id)
  \/ \E id \in timeouts : CommitTimeout(id)
  \/ \E k \in 1..Len(posts) : PostOk(k)
  \/ \E k \in 1..Len(posts) : PostFail(k)
  \/ LogFetchServed
  \/ LogFetchResponse
  \/ LogFetchError

SpecLog == Init /\ [][NextLog]_vars

\* the mean of the values a session's sampler observed for channel i
RECURSIVE ObservedSum(_, _)
ObservedSum(obs, i) ==
  IF obs = <<>> THEN Num(0)
  ELSE NumAdd(ObservedSum(Tail(obs), i),
              IF Head(obs)[i].active THEN Head(obs)[i].resistance ELSE Num(0))

ObservedMean(obs, i) ==
  IF Len(obs) = 0 THEN Num(0) ELSE NumDiv(ObservedSum(obs, i), Len(obs))

\* C2: once a request has replaced a pending averaging session, neither timer of
\* the replaced session is live, no entry is built by it, and an entry committed
\* by a later session holds the mean of that later session's own samples only.
C2_SupersededDiscarded ==
  superseded.id # 0 =>
    /\ superseded.id \notin intervals \cup timeouts
    /\ lastBuilt.session # superseded.id
    /\ lastBuilt.session > superseded.id =>
         \A i \in Channels :
           lastBuilt.entry.r[i] =
             IF lastBuilt.active[i] THEN ObservedMean(lastBuilt.obs, i) ELSE Num(0)

\* a session that had accumulated a non-zero sum was replaced, and the session
\* that replaced it has committed
C2_Witness ==
  /\ superseded.id # 0
  /\ superseded.count > 0
  /\ NumGt0(superseded.sum[1])
  /\ lastBuilt.session > superseded.id

\* C3: at most one periodic sampler and at most one commit timer are live, and a
\* sampler is live only together with the commit timer of the same session.
C3_AtMostOneSession ==
  /\ Cardinality(intervals) <= 1
  /\ Cardinality(timeouts) <= 1
  /\ intervals \subseteq timeouts
  /\ DOMAIN sessions = timeouts

\* a session is pending after an earlier one was replaced
C3_Witness ==
  /\ superseded.id # 0
  /\ intervals # {}
  /\ timeouts # {}

\* C4: every entry a capture builds carries the length of the in-memory log at the
\* moment it is built, plus one.
C4_OrdinalAtBuild ==
  lastBuilt # NoBuilt => lastBuilt.entry.calibrationNumber = lastBuilt.logLen + 1

\* C5: the ordinals of the in-memory log are strictly increasing in log order.
C5_OrdinalsIncrease ==
  \A i, j \in 1..Len(calibrationLog) :
    i < j => calibrationLog[i].calibrationNumber < calibrationLog[j].calibrationNumber

\* C6: an entry of the in-memory log stays at its position, unchanged, in every
\* later state.
C6_LogOnlyGrows ==
  [][\A i \in 1..Len(calibrationLog) :
        /\ i <= Len(calibrationLog')
        /\ calibrationLog'[i] = calibrationLog[i]]_vars

\* C9: a rejected capture request leaves the log, the markers, the persistence
\* calls, averagingInProgress, both timer refs, the live timers and the
\* accumulators as they were.
C9_RejectedChangesNothing ==
  [][lastEvent' = "rejected" =>
       UNCHANGED <<calibrationLog, calibrationPoints, posts, coeffFetches,
                   averagingInProgress, averagingIntervalRef, averagingTimeoutRef,
                   intervals, timeouts, sessions, thermistors, measuredTempInput,
                   averagingTime, captures, lastBuilt>>]_vars

\* a request was rejected after an earlier averaged capture had committed
C9_Witness ==
  /\ lastEvent = "rejected"
  /\ lastBuilt.session # 0
  /\ averagingTimeoutRef # 0

(* ---------------- specification: one averaged session ----------------- *)
\* the k-th telemetry line of a rising ramp on channel 29: "29:10", "29:20", ...
RampLine(k) == <<"2", "9", ":">> \o IntText(10 * k) \o <<NL>>

\* the first capture of the page, averaged, sampled while the telemetry rises and
\* channel 1 is toggled
NextAveraging ==
  \/ OpenSerialPort
  \/ now < MaxRampLines /\ ReadChunk(RampLine(now + 1))
  \/ \E v \in TempInputs : measuredTempInput # v /\ SetMeasuredTemp(v)
  \/ averagingTime # 2 /\ SetAveragingTime(2)
  \/ Len(sentCommands) <= MaxToggles /\ handleThermistorToggle(1)
  \/ captures = 0 /\ HandleCalibrateAveraged
  \/ \E id \in intervals : sessions[id].count < MaxSamples /\ SamplerTick(id)
  \/ \E id \in timeouts : CommitTimeout(id)
  \/ \E k \in 1..Len(posts) : PostOk(k)
  \/ \E k \in 1..Len(posts) : PostFail(k)

SpecAveraging == Init /\ [][NextAveraging]_vars

\* C10: the entry an averaging session commits holds, for every channel that was
\* active at each sampler tick and at the commit, the sum of the raw values the
\* sampler observed divided by the number of ticks, and 0 when it never ticked.
C10_CommittedMean ==
  lastBuilt.session # 0 =>
    \A i \in Channels :
      (/\ lastBuilt.active[i]
       /\ \A k \in 1..Len(lastBuilt.obs) : lastBuilt.obs[k][i].active)
      => lastBuilt.entry.r[i] = ObservedMean(lastBuilt.obs, i)

\* the sampler observed 10, 20, 30, 40 on channel 1 and the entry holds 25
C10_Witness ==
  /\ lastBuilt.session # 0
  /\ Len(lastBuilt.obs) = 4
  /\ \A k \in 1..4 : /\ lastBuilt.obs[k][1].active
                     /\ lastBuilt.obs[k][1].resistance = Num(10 * k)
  /\ lastBuilt.active[1]
  /\ lastBuilt.entry.r[1] = Num(25)

(* ---------------- specification: the marker buffer -------------------- *)
\* instant captures, each adding one marker per active channel, POSTs failing in order
NextMarkers ==
  \/ OpenSerialPort
  \/ \E v \in TempInputs : measuredTempInput # v /\ SetMeasuredTemp(v)
  \/ captures < MaxMarkerCaptures /\ HandleCalibrateInstant
  \/ posts # <<>> /\ PostFail(1)

SpecMarkers == Init /\ [][NextMarkers]_vars

\* C7: the marker buffer never holds more than 500 points.
C7_MarkersCapped == Len(calibrationPoints) <= HistoryCap

(* ---------------- specification: the telemetry history ---------------- *)
\* a long run of telemetry lines for channel 29, one per chunk
ChartLine == <<"2", "9", ":", "2", NL>>

NextChart ==
  \/ OpenSerialPort
  \/ now < MaxChartLines /\ ReadChunk(ChartLine)

SpecChart == Init /\ [][NextChart]_vars

\* C8: chartData never holds more than 500 points, its points are in line order,
\* and once more than 500 lines were processed it holds exactly the points of the
\* 500 most recent lines, oldest first.
C8_ChartCapped ==
  /\ Len(chartData) <= HistoryCap
  /\ \A k \in 1..Len(chartData) : chartData[k].timestamp = now - Len(chartData) + k
  /\ now > HistoryCap => Len(chartData) = HistoryCap

\* more than 500 lines were processed and the oldest point kept is that of the
\* 500th most recent line
C8_Witness ==
  /\ now > HistoryCap
  /\ Len(chartData) = HistoryCap
  /\ chartData[1].timestamp = now - HistoryCap + 1
  /\ chartData[HistoryCap].timestamp = now

(* ---------------- specification: the channel store -------------------- *)
Line29 == <<"2", "9", ":", "7", NL>>
BlankLine == <<" ", "\r", NL>>
NoiseLine == <<" ", "e", "t", "s", " ", "J", NL>>

TelemetryLines == {TextAll, Line29, BlankLine, NoiseLine}

\* telemetry lines, one per chunk, while channels 1 and 2 are toggled
NextTelemetry ==
  \/ OpenSerialPort
  \/ \E value \in TelemetryLines : Len(delivered) < MaxTelemetryLines /\ ReadChunk(value)
  \/ \E id \in {1, 2} : Len(sentCommands) <= MaxToggles /\ handleThermistorToggle(id)

SpecTelemetry == Init /\ [][NextTelemetry]_vars

\* a step in which exactly one line is handed to updateSensorData, and that line
LineStep == Len(delivered') = Len(delivered) + 1
StepLine == Trim(delivered'[Len(delivered')])
StepIgnored == StepLine = <<>> \/ (Len(StepLine) >= 3 /\ SubSeq(StepLine, 1, 3) = <<"e", "t", "s">>)

\* C11: when a line carrying a value for the hardware channel of an active channel
\* is processed, the stored raw value becomes that value and the stored temperature
\* becomes the conversion of that same value under the channel's coefficients.
C11_NewValueConverted ==
  [][(LineStep /\ ~StepIgnored) =>
       \A i \in Channels :
         (thermistors[i].active /\ (i + ChannelOffset) \in DOMAIN ParseLine(StepLine)) =>
           /\ thermistors'[i].resistance = ParseLine(StepLine)[i + ChannelOffset]
           /\ thermistors'[i].temperature =
                ConvertTemp(ParseLine(StepLine)[i + ChannelOffset],
                            calibrationCoeffs[i + ChannelOffset])]_vars

\* C12: when a processed line does not carry the hardware channel of an active
\* channel, the stored temperature (and raw value) of that channel become NaN.
C12_AbsentBecomesNaN ==
  [][(LineStep /\ ~StepIgnored) =>
       \A i \in Channels :
         (thermistors[i].active /\ (i + ChannelOffset) \notin DOMAIN ParseLine(StepLine)) =>
           /\ thermistors'[i].temperature = TempNaN
           /\ IsNaN(thermistors'[i].resistance)]_vars

\* channel 2 had a reading, then a line without channel 30 was processed
C12_Witness ==
  /\ Len(delivered) >= 2
  /\ delivered[Len(delivered) - 1] \o <<NL>> = TextAll
  /\ delivered[Len(delivered)] \o <<NL>> = Line29
  /\ thermistors[2].active
  /\ thermistors[2].temperature = TempNaN
  /\ thermistors[1].resistance = Num(7)

C16_IgnoredLineNoChange ==
  [][(LineStep /\ StepIgnored) => UNCHANGED <<thermistors, chartData, calibrationCoeffs,
                                              calibrationLog, calibrationPoints>>]_vars

\* a boot-noise line was read last, after a line that gave every channel a reading,
\* and the readings are still there
C16_Witness ==
  /\ Len(delivered) >= 2
  /\ delivered[Len(delivered)] \o <<NL>> = NoiseLine
  /\ delivered[Len(delivered) - 1] \o <<NL>> = TextAll
  /\ \A i \in Channels : thermistors[i].resistance = Num(2)
  /\ Len(chartData) = 1

(* ---------------- specification: the telemetry parser ----------------- *)
\* tokens a line is made of; Meaning gives, for the well-formed ones, the channel
\* and the value they carry
Tok120 == <<"2", "9", ":", "1", "2", "0", ".", "5">>
TokBad == <<"b", "a", "d", "-", "t", "o", "k", "e", "n">>
Tok31 == <<"3", "1", ":", "0">>
Tok29 == <<"2", "9", ":", "3">>
TokNoValue == <<"3", "0", ":", "x">>
TokNoChannel == <<"x", ":", "1">>
TokThreeParts == <<"2", "9", ":", "1", ":", "2">>
TokEmpty == <<>>

ParserTokens ==
  {Tok120, TokBad, Tok31, Tok29, TokNoValue, TokNoChannel, TokThreeParts, TokEmpty}

Meaning ==
  (Tok120 :> [channel |-> 29, value |-> Rat(1205, 10)])
  @@ (Tok31 :> [channel |-> 31, value |-> Num(0)])
  @@ (Tok29 :> [channel |-> 29, value |-> Num(3)])

TokenSeqs == UNION {[1..k -> ParserTokens] : k \in 1..MaxTokens}

RECURSIVE JoinTokens(_)
JoinTokens(toks) ==
  IF Len(toks) = 1 THEN toks[1] ELSE toks[1] \o <<";">> \o JoinTokens(Tail(toks))

\* the first line of a connection, made of any tokens
NextParser ==
  \/ OpenSerialPort
  \/ \E toks \in TokenSeqs : delivered = <<>> /\ ReadChunk(JoinTokens(toks) \o <<NL>>)

SpecParser == Init /\ [][NextParser]_vars

\* the positions of the well-formed tokens of toks that carry hardware channel ch
Carriers(toks, ch) ==
  {k \in 1..Len(toks) : toks[k] \in DOMAIN Meaning /\ Meaning[toks[k]].channel = ch}

\* C14: whatever malformed tokens a line holds and wherever they stand, a channel
\* gets a value from the line exactly when the line holds a well-formed token for
\* it, and the value of that token when there is exactly one.
C14_BadTokensSkipped ==
  [][(LineStep /\ ~StepIgnored) =>
       \A toks \in TokenSeqs :
         delivered'[Len(delivered')] = JoinTokens(toks) =>
           \A i \in Channels :
             LET at == Carriers(toks, i + ChannelOffset)
             IN  /\ IsNaN(thermistors'[i].resistance) <=> at = {}
                 /\ Cardinality(at) = 1 =>
                      \A k \in at : thermistors'[i].resistance = Meaning[toks[k]].value]_vars

\* the line "29:120.5;bad-token;31:0" was read: channel 29 holds 120.5, channel 31
\* holds 0, the other two have no reading
C14_Witness ==
  /\ delivered = <<JoinTokens(<<Tok120, TokBad, Tok31>>)>>
  /\ thermistors[1].resistance = Rat(1205, 10)
  /\ thermistors[3].resistance = Num(0)
  /\ IsNaN(thermistors[2].resistance)
  /\ IsNaN(thermistors[4].resistance)

\* C15: when a line holds several well-formed tokens for one channel, the channel's
\* raw value becomes the value of the one that stands last.
C15_LastTokenWins ==
  [][(LineStep /\ ~StepIgnored) =>
       \A toks \in TokenSeqs :
         delivered'[Len(delivered')] = JoinTokens(toks) =>
           \A i \in Channels :
             LET at == Carriers(toks, i + ChannelOffset)
             IN  Cardinality(at) >= 2 =>
                   \E k \in at : /\ \A h \in at : h <= k
                                 /\ thermistors'[i].resistance = Meaning[toks[k]].value]_vars

\* "29:120.5;29:3" was read and channel 29 holds 3
C15_Witness ==
  /\ delivered = <<JoinTokens(<<Tok120, Tok29>>)>>
  /\ thermistors[1].resistance = Num(3)

(* ---------------- specification: persistence responses ---------------- *)
\* captures of both kinds, the answers to their POSTs, and the coefficient
\* fetches that follow them
NextPersist ==
  \/ OpenSerialPort
  \/ \E v \in TempInputs : measuredTempInput # v /\ SetMeasuredTemp(v)
  \/ \E seconds \in AveragingTimes : averagingTime # seconds /\ SetAveragingTime(seconds)
  \/ captures < MaxPersistCaptures /\ HandleCalibrateAveraged
  \/ captures < MaxPersistCaptures /\ HandleCalibrateInstant
  \/ \E id \in timeouts : CommitTimeout(id)
  \/ \E k \in 1..Len(posts) : PostOk(k)
  \/ \E k \in 1..Len(posts) : PostFail(k)
  \/ \E data \in {ServerCoeffs, computeDefaultCoeffs} : CoeffsResponse(data)
  \/ CoeffsError

SpecPersist == Init /\ [][NextPersist]_vars

\* a step in which a POST leaves flight without its entry reaching the log
PostFailedStep == Len(posts') < Len(posts) /\ calibrationLog' = calibrationLog

\* C19: the failure of a capture's POST starts no coefficient fetch.
C19_NoRefitAfterFailure ==
  [][PostFailedStep => coeffFetches' = coeffFetches]_vars

\* C20: when a capture's POST fails, averagingInProgress is false afterwards and
\* the log, the markers and the telemetry history are what they were before.
C20_FailureKeepsHistory ==
  [][PostFailedStep =>
       /\ averagingInProgress' = FALSE
       /\ UNCHANGED <<calibrationLog, calibrationPoints, chartData>>]_vars

\* the POST of an instant capture failed while a later averaged capture was
\* pending: the flag is cleared, the markers of the capture are still there
C20_Witness ==
  /\ calibrationLog = <<>>
  /\ posts = <<>>
  /\ coeffFetches > 0
  /\ timeouts # {}
  /\ ~averagingInProgress
  /\ calibrationPoints # <<>>

(* ---------------- specification: the client-side fit ------------------ *)
\* the logs the persistence collaborator may hold when the page is opened: entry
\* k was captured at 20 + k degrees; channel 29 read nothing, 7 or k, channel 30
\* read k, channel 31 was inactive, channel 32 read 5 every time
FitEntry(k, first) ==
  [calibrationNumber |-> k, time |-> k, measuredTemperature |-> Num(20 + k),
   r |-> <<first, Num(k), Num(0), Num(5)>>]

FitLogs ==
  UNION {{[k \in 1..n |-> FitEntry(k, <<Num(0), Num(7), Num(k)>>[pick[k]])] :
            pick \in [1..n -> 1..3]} : n \in 0..MaxFitLog}

InitFit == \E log \in FitLogs : InitServing(log)

NextFit ==
  \/ LogFetchServed
  \/ LogFetchResponse
  \/ LogFetchError
  \/ OpenSerialPortFitting
  \/ \E value \in {TextAll, Line29} : Len(delivered) < MaxFitLines /\ ReadChunkFitting(value)

SpecFit == InitFit /\ [][NextFit]_vars

\* the positions of the log whose entry has a usable value for channel ch
UsableAt(ch, log) == {k \in 1..Len(log) : NumGt0(log[k].r[ch - ChannelOffset])}

PointOf(log, k, ch) ==
  [resistance |-> log[k].r[ch - ChannelOffset],
   temperature |-> NumAdd(log[k].measuredTemperature, Kelvin)]

\* the j-th of the four greatest positions of U
Ranked(U, j) == CHOOSE k \in U : Cardinality({m \in U : m > k}) = 4 - j

ExpectedPoints(ch, log) ==
  IF Cardinality(UsableAt(ch, log)) >= 4
  THEN [j \in 1..4 |-> PointOf(log, Ranked(UsableAt(ch, log), j), ch)]
  ELSE StandardPoints

ConnectStep == serialConnected' /\ ~serialConnected

\* C17: for every log and hardware channel the solver gets exactly 4 points: the
\* 4 most recent entries with a usable value for the channel, in log order, when
\* there are at least 4, otherwise the 4 standard points; never a mixture.
C17_FitPointsSelected ==
  [][ConnectStep =>
       \A ch \in HardwareChannels :
         LET points == loopCoeffs'[ch].points
             real == {PointOf(calibrationLog, k, ch) : k \in UsableAt(ch, calibrationLog)}
         IN  /\ Len(points) = 4
             /\ points = ExpectedPoints(ch, calibrationLog)
             /\ \/ \A j \in 1..4 : points[j] = StandardPoints[j]
                \/ \A j \in 1..4 : points[j] \in real]_vars

\* connected with a log of five entries: channel 29 skips the entry without a
\* value, channel 30 drops the oldest entry, channel 31 gets the standard points
C17_Witness ==
  /\ serialConnected
  /\ Len(calibrationLog) = 5
  /\ UsableAt(29, calibrationLog) = {1, 2, 4, 5}
  /\ loopCoeffs[29].points = [j \in 1..4 |-> PointOf(calibrationLog, <<1, 2, 4, 5>>[j], 29)]
  /\ loopCoeffs[30].points = [j \in 1..4 |-> PointOf(calibrationLog, j + 1, 30)]
  /\ loopCoeffs[31].points = StandardPoints

\* a line is processed whose conversion needs a fit that the solver rejects
FitFailedStep ==
  /\ LineStep
  /\ ~StepIgnored
  /\ \E i \in Channels :
       /\ thermistors[i].active
       /\ (i + ChannelOffset) \in DOMAIN ParseLine(StepLine)
       /\ loopCoeffs[i + ChannelOffset].singular

\* C18: when the fit of a channel fails on degenerate points, the page stays up
\* and the acquisition loop keeps reading.
C18_FitFailureNotFatal ==
  [][FitFailedStep => mounted' /\ readerRef' = "reader"]_vars

(* ------------------ further claims over SpecCapture ------------------- *)
\* C21: once the page is torn down, no sampler and no commit timer is live, and
\* no step after the teardown adds a log entry, a marker or a persistence call
\* or builds an entry.
C21_TeardownStopsSession ==
  [][~mounted' =>
       /\ intervals' = {} /\ timeouts' = {}
       /\ ~mounted => UNCHANGED <<calibrationLog, calibrationPoints, posts, lastBuilt>>]_vars

\* the page was torn down while an averaging session was waiting for its commit
C21_Witness ==
  /\ ~mounted
  /\ averagingInProgress
  /\ averagingTimeoutRef # 0
  /\ averagingIntervalRef = averagingTimeoutRef
  /\ intervals = {} /\ timeouts = {}

(* --------------- specification: values that are not positive ---------- *)
LineZero == <<"2", "9", ":", "0", NL>>
LineNegative == <<"2", "9", ":", "-", "3", NL>>
ConversionLines == {Line29, LineZero, LineNegative}

\* lines whose value for channel 29 is positive, zero or negative
NextConversion ==
  \/ OpenSerialPort
  \/ \E value \in ConversionLines :
       Len(delivered) < MaxConversionLines /\ ReadChunk(value)
  \/ Len(sentCommands) <= MaxToggles /\ handleThermistorToggle(1)

SpecConversion == Init /\ [][NextConversion]_vars

\* C22: when neither the value a line carries for an active channel nor the value
\* the channel held before is positive, the temperature stored by the conversion
\* is the not-a-number sentinel.
C22_NonPositiveIsSentinel ==
  [][(LineStep /\ ~StepIgnored) =>
       \A i \in Channels :
         LET channel == i + ChannelOffset
             dataMap == ParseLine(StepLine)
         IN  (/\ thermistors[i].active
              /\ channel \in DOMAIN dataMap
              /\ ~NumGt0(dataMap[channel])
              /\ ~NumGt0(thermistors[i].resistance))
             => thermistors'[i].temperature = TempNaN]_vars

(* ------------- specification: captures with inactive channels --------- *)
\* instant captures, then averaged ones, while channel 1 is switched off and on;
\* one telemetry line in which every channel reads 2; the POSTs fail in order
NextInactive ==
  \/ OpenSerialPort
  \/ delivered = <<>> /\ ReadChunk(TextAll)
  \/ measuredTempInput = EmptyField /\ SetMeasuredTemp(Num(25))
  \/ averagingTime = 0 /\ SetAveragingTime(2)
  \/ Len(sentCommands) <= MaxToggles /\ handleThermistorToggle(1)
  \/ captures < MaxInactiveCaptures /\ HandleCalibrateAveraged
  \/ captures < MaxInactiveCaptures /\ HandleCalibrateInstant
  \/ \E id \in intervals : sessions[id].count < MaxInactiveTicks /\ SamplerTick(id)
  \/ \E id \in timeouts : CommitTimeout(id)
  \/ posts # <<>> /\ PostFail(1)

SpecInactive == Init /\ [][NextInactive]_vars

\* C23: an entry built by a capture holds 0 for every channel that is inactive
\* when it is built, on either path, and a sampler tick leaves the sum of a
\* channel that is inactive at the tick as it was.
C23_InactiveContributesZero ==
  [][/\ lastBuilt' # lastBuilt =>
          \A i \in Channels : ~thermistors[i].active => lastBuilt'.entry.r[i] = Num(0)
     /\ \A id \in (DOMAIN sessions) \cap (DOMAIN sessions') :
          sessions'[id].count = sessions[id].count + 1 =>
            \A i \in Channels :
              ~thermistors[i].active => sessions'[id].sum[i] = sessions[id].sum[i]]_vars

\* channel 1 was sampled at 2 ohm during the window and switched off before the
\* commit: the entry holds 0 for it and the mean for channel 3
C23_Witness ==
  /\ lastBuilt.session # 0
  /\ ~lastBuilt.active[1]
  /\ \E k \in 1..Len(lastBuilt.obs) :
       lastBuilt.obs[k][1].active /\ lastBuilt.obs[k][1].resistance = Num(2)
  /\ lastBuilt.entry.r[1] = Num(0)
  /\ lastBuilt.entry.r[3] = Num(2)

(* ----------- specification: the built-in default coefficients --------- *)
\* Reciprocal temperatures are kept as integers in units of 1e-11 per kelvin,
\* logarithms in units of 1e-6.
\* computeDefaultCoeffs(): A, B, C, D rounded to the unit
DefaultA == 95373843
DefaultB == 21617544
DefaultC == 562392
DefaultD == -8684

\* Math.log of the four standard resistances, truncated to the unit
StandardLn == <<8012118, 7142906, 6881719, 6280021>>

\* v * lnR, one decimal digit of the logarithm at a time
MulLn(v, ln) ==
  LET Digit(k) == (ln \div Pow10(6 - k)) % 10
  IN  v * (ln \div Pow10(6))
      + (v * Digit(1)) \div Pow10(1) + (v * Digit(2)) \div Pow10(2)
      + (v * Digit(3)) \div Pow10(3) + (v * Digit(4)) \div Pow10(4)
      + (v * Digit(5)) \div Pow10(5) + (v * Digit(6)) \div Pow10(6)

\* coeff.A + coeff.B * lnR + coeff.C * lnR^2 + coeff.D * lnR^3 with the defaults
DefaultInverseKelvin(ln) ==
  MulLn(MulLn(MulLn(DefaultD, ln) + DefaultC, ln) + DefaultB, ln) + DefaultA

\* the first k decimal digits of r / n, for r < n
RECURSIVE LongDiv(_, _, _, _)
LongDiv(r, n, k, acc) ==
  IF k = 0 THEN acc
  ELSE LongDiv((r * 10) % n, n, k - 1, acc * 10 + (r * 10) \div n)

\* 1 / T for a temperature T in kelvin
InverseKelvin(T) == LongDiv(T.d, T.n, 11, 0)

\* the telemetry line "29:<R>" for the j-th standard resistance
StandardLine(j) ==
  <<"2", "9", ":">>
  \o IntText(StandardPoints[j].resistance.n \div 10)
  \o <<".">> \o IntText(StandardPoints[j].resistance.n % 10) \o <<NL>>

\* channel 29 reads standard resistances; a capture is followed by a coefficient
\* fetch whose answer is not usable, so computeDefaultCoeffs() is installed and
\* the temperatures are recalculated with it
NextDefaults ==
  \/ OpenSerialPort
  \/ \E j \in 1..4 : Len(delivered) < MaxStandardLines /\ ReadChunk(StandardLine(j))
  \/ \E v \in {Num(60), Num(90)} : measuredTempInput # v /\ SetMeasuredTemp(v)
  \/ captures < MaxStandardCaptures /\ HandleCalibrateInstant
  \/ posts # <<>> /\ PostOk(1)
  \/ posts # <<>> /\ PostFail(1)
  \/ CoeffsResponse(computeDefaultCoeffs)

SpecDefaults == Init /\ [][NextDefaults]_vars

\* 1e-7 per kelvin, about 0.01 degrees at the standard temperatures
FitTolerance == Pow10(4)

\* C24: the default coefficients are the fit of the four standard points: a
\* standard resistance converted with them gives the reciprocal of its standard
\* temperature, within the tolerance.
C24_DefaultsFitStandardPoints ==
  \A i \in Channels : \A j \in 1..4 :
    LET t == thermistors[i].temperature
    IN  (t.kind = "conv" /\ t.c = "default" /\ t.r = StandardPoints[j].resistance)
        => Abs(DefaultInverseKelvin(StandardLn[j])
               - InverseKelvin(StandardPoints[j].temperature)) <= FitTolerance

(* ---------------- specification: activation toggles ------------------- *)
\* the operator switches channels off and on after connecting
NextToggle ==
  \/ OpenSerialPort
  \/ \E id \in Channels :
       Len(sentCommands) <= MaxToggleCommands /\ handleThermistorToggle(id)

SpecToggle == Init /\ [][NextToggle]_vars

\* the channels whose active flag a step changes
Toggled == {i \in Channels : thermistors'[i].active # thermistors[i].active}

\* the hardware ids 29..32 as text, and the list of those in S in channel order
HardwareIdText == <<<<"2", "9">>, <<"3", "0">>, <<"3", "1">>, <<"3", "2">>>>

RECURSIVE ChannelList(_, _)
ChannelList(S, i) ==
  IF i > NumChannels THEN <<>>
  ELSE IF i \in S
       THEN HardwareIdText[i]
            \o (IF \E k \in S : k > i THEN <<",">> ELSE <<>>)
            \o ChannelList(S, i + 1)
       ELSE ChannelList(S, i + 1)

OpenSerialPortOpenFails ==
  /\ mounted /\ ~serialConnected
  /\ lastEvent' = "openFailed"
  /\ UNCHANGED <<serialVars, chanVars, capVars, rtVars, netVars, received, delivered,
                 captures, lastBuilt, superseded>>

\* openSerialPort: the port opens, setSerialConnected(true), and the write of the
\* start command rejects; the catch block logs and no reader is created
OpenSerialPortWriteFails ==
  /\ mounted /\ ~serialConnected
  /\ portRef' = "port"
  /\ serialConnected' = TRUE
  /\ lastEvent' = "writeFailed"
  /\ UNCHANGED <<readerRef, bufferRef, loopCoeffs, closeCall, sentCommands, chanVars, capVars, rtVars,
                 netVars, received, delivered, captures, lastBuilt, superseded>>

\* reader.read() rejects (lost: the device is gone; otherwise a line error on an
\* open port): the catch block of openSerialPort logs and the function returns
ReadFails(lost) ==
  /\ readerRef = "reader"
  /\ readerRef' = "errored"
  /\ portRef' = IF lost THEN "lost" ELSE portRef
  /\ lastEvent' = "readFailed"
  /\ UNCHANGED <<serialConnected, bufferRef, loopCoeffs, closeCall, sentCommands, chanVars, capVars,
                 rtVars, netVars, received, delivered, captures, lastBuilt, superseded>>

\* reader.read() answers { done: true }: "if (done) break", the function returns
ReadEnds ==
  /\ readerRef = "reader"
  /\ readerRef' = "closed"
  /\ lastEvent' = "readEnded"
  /\ UNCHANGED <<serialConnected, portRef, bufferRef, loopCoeffs, closeCall, sentCommands, chanVars,
                 capVars, rtVars, netVars, received, delivered, captures, lastBuilt,
                 superseded>>

\* <Backdrop open={!serialConnected}> with the "Connect Port" button
ConnectGateShown == mounted /\ ~serialConnected

NextTransport ==
  \/ OpenSerialPort
  \/ lastEvent # "openFailed" /\ OpenSerialPortOpenFails
  \/ OpenSerialPortWriteFails
  \/ \E value \in {TextAll, Line29} :
       Len(delivered) < MaxTransportLines /\ ReadChunk(value)
  \/ \E lost \in BOOLEAN : ReadFails(lost)
  \/ ReadEnds
  \/ \E id \in {1, 2} : Len(sentCommands) <= MaxToggles /\ handleThermistorToggle(id)
  \/ Unmount

SpecTransport == Init /\ [][NextTransport]_vars

\* C26: while the page is up, either the read loop is running or the operator is
\* offered the connect gate: the page is never marked connected with no loop.
C26_RetryAfterFailure ==
  mounted => (readerRef = "reader" \/ ConnectGateShown)

(* ------------------ the commit of an averaging session ---------------- *)
\* the commit timer of session id fires: it leaves the live timers in a step that
\* is neither a new request nor the teardown
CommitStepOf(id) ==
  /\ id \in timeouts /\ id \notin timeouts'
  /\ captures' = captures
  /\ mounted'

\* C27: when the commit timer of a pending session fires, the session builds one
\* entry and hands it to persistence, its sampler is stopped, its closure is
\* dropped and averagingInProgress is false; timers are numbered afresh, so
\* neither timer of the session can fire again.
C27_CommitsOnce ==
  [][/\ \A id \in timeouts :
          CommitStepOf(id) =>
            /\ lastBuilt'.session = id
            /\ posts' = Append(posts, lastBuilt'.entry)
            /\ id \notin intervals'
            /\ id \notin DOMAIN sessions'
            /\ ~averagingInProgress'
     /\ \A id \in (timeouts' \ timeouts) \cup (intervals' \ intervals) : id > nextTimer]_vars

\* a session that was never replaced has committed after its sampler ticked: no
\* timer is live and the controller is idle
C27_Witness ==
  /\ mounted
  /\ lastBuilt.session # 0
  /\ Len(lastBuilt.obs) = MaxTicks
  /\ superseded = NoSession
  /\ intervals = {} /\ timeouts = {}
  /\ ~averagingInProgress
  /\ posts = <<lastBuilt.entry>>

(* --------------- specification: telemetry after a refit --------------- *)
\* telemetry before and after a capture whose POST is answered and followed by
\* the coefficient fetch
NextRefit ==
  \/ OpenSerialPort
  \/ \E value \in {TextAll, Line29} : Len(delivered) < MaxRefitLines /\ ReadChunk(value)
  \/ measuredTempInput = EmptyField /\ SetMeasuredTemp(Num(25))
  \/ captures < MaxRefitCaptures /\ HandleCalibrateInstant
  \/ posts # <<>> /\ PostOk(1)
  \/ posts # <<>> /\ PostFail(1)
  \/ \E data \in {ServerCoeffs, computeDefaultCoeffs} : CoeffsResponse(data)
  \/ CoeffsError

SpecRefit == Init /\ [][NextRefit]_vars

\* C28: a telemetry line that makes the read loop convert the value of an active
\* channel converts it with the coefficients in effect for that channel when the
\* line is processed.
C28_LoopUsesCurrentCoeffs ==
  [][(LineStep /\ ~StepIgnored) =>
       \A i \in Channels :
         (thermistors[i].active /\ thermistors'[i].temperature.kind = "conv")
         => thermistors'[i].temperature.c = calibrationCoeffs[i + ChannelOffset]]_vars

(* ------------- specification: the refit after a capture --------------- *)
\* The page of the client-side fit opened on a stored log; channel 4 reads 5 in
\* every stored entry, which no fit of four entries survives, so the operator
\* may switch it off before capturing.
\* the stored logs of this specification: channel 1 read k in entry k
CaptureLogs == {[k \in 1..n |-> FitEntry(k, Num(k))] : n \in 0..MaxFitLog}

InitFitCapture == \E log \in CaptureLogs : InitServing(log)

NextFitCapture ==
  \/ LogFetchServed
  \/ LogFetchResponse
  \/ OpenSerialPortFitting
  \/ delivered = <<>> /\ ReadChunkFitting(TextAll)
  \/ measuredTempInput = EmptyField /\ SetMeasuredTemp(Num(25))
  \/ averagingTime = 0 /\ SetAveragingTime(2)
  \/ thermistors[4].active /\ handleThermistorToggle(4)
  \/ captures < MaxFitCaptures /\ HandleCalibrateInstantFitting
  \/ captures < MaxFitCaptures /\ HandleCalibrateAveraged
  \/ \E id \in intervals : sessions[id].count < MaxFitTicks /\ SamplerTick(id)
  \/ \E id \in timeouts : CommitTimeoutFitting(id)
  \/ \E ok \in BOOLEAN : posts # <<>> /\ PostSettledFitting(1, ok)

SpecFitCapture == InitFitCapture /\ [][NextFitCapture]_vars

\* a POST was answered 2xx and the page survived the recalculation
PersistedStep ==
  /\ Len(posts') < Len(posts)
  /\ Len(calibrationLog') = Len(calibrationLog) + 1
  /\ mounted'

\* C29: once a capture's entry has been persisted, the temperatures of the
\* active channels are recalculated with the fit of the log that holds the
\* entry just committed, not of the log the capture was requested on.
C29_RefitUsesCommittedEntry ==
  [][PersistedStep =>
       \A i \in Channels :
         (thermistors'[i].active /\ thermistors'[i].temperature.kind = "conv")
         => thermistors'[i].temperature.c
              = FitPoints(thermistors'[i].id + ChannelOffset, calibrationLog')]_vars

(* ------------- further claims over SpecPersist ------------------------ *)
InLog(entry, log) == \E j \in 1..Len(log) : log[j] = entry

\* C30: the entry built by a capture is in calibrationLog while its POST is in
\* flight, and the settling of a POST, failed or not, takes no entry out of
\* the log.
C30_EntryLoggedBeforeSave ==
  [][/\ \A k \in 1..Len(posts') : InLog(posts'[k], calibrationLog')
     /\ \A j \in 1..Len(calibrationLog) : InLog(calibrationLog[j], calibrationLog')]_vars

(* ---------------- specification: closing the transport ---------------- *)
\* a line of channel 29 that arrives in two chunks
HeadChunk == <<"2", "9", ":", "7">>
RestChunk == <<";", "3", "0", ":", "2", NL>>

NextClose ==
  \/ Len(sentCommands) < MaxCloseOpens /\ OpenSerialPort
  \/ OpenSerialPortWriteFails
  \/ \E value \in {HeadChunk, RestChunk} :
       Len(received) + Len(value) <= MaxCloseText /\ ReadChunk(value)
  \/ \E lost \in BOOLEAN : ReadFails(lost)
  \/ ReadEnds
  \/ onLogout
  \/ handleReturnToDashboard
  \/ \E ok \in BOOLEAN : CancelSettled(ok)
  \/ \E ok \in BOOLEAN : CloseSettled(ok)
  \/ MountPage

SpecClose == Init /\ [][NextClose]_vars

\* C31: closeSerialPort() called on a running read loop cancels the read and
\* leaves the port alone until the cancel has settled; port.close() is pending
\* only once the reader handle is released; a cancel that settles on an open
\* port is followed by port.close() whether it resolved or was rejected; and
\* when the call ends the reader handle is released and the caller's
\* continuation has run, whatever the two steps answered.
C31_CloseCancelsThenCloses ==
  [][/\ (closeCall.pc = "idle" /\ closeCall'.pc # "idle" /\ readerRef = "reader")
          => (closeCall'.pc = "cancel" /\ portRef' = portRef)
     /\ closeCall'.pc = "close" => readerRef' = "null"
     /\ (closeCall.pc = "cancel" /\ closeCall'.pc # "cancel" /\ portRef = "port")
          => (closeCall'.pc = "close" /\ portRef' = "closing")
     /\ (closeCall.pc # "idle" /\ closeCall'.pc = "idle")
          => (readerRef' = "null" /\ ~mounted')]_vars

\* the cancel was rejected and port.close() is pending all the same
C31_Witness ==
  /\ lastEvent = "cancelFailed"
  /\ closeCall.pc = "close"
  /\ portRef = "closing"
  /\ readerRef = "null"

(* ------------- specification: leaving during an averaging ------------- *)
NextLogout ==
  \/ OpenSerialPort
  \/ delivered = <<>> /\ ReadChunk(TextAll)
  \/ measuredTempInput = EmptyField /\ SetMeasuredTemp(Num(25))
  \/ averagingTime = 0 /\ SetAveragingTime(2)
  \/ captures < MaxLogoutCaptures /\ HandleCalibrateAveraged
  \/ \E id \in intervals : sessions[id].count < MaxLogoutTicks /\ SamplerTick(id)
  \/ \E id \in timeouts : CommitTimeout(id)
  \/ posts # <<>> /\ PostFail(1)
  \/ onLogout
  \/ \E ok \in BOOLEAN : CancelSettled(ok)
  \/ \E ok \in BOOLEAN : CloseSettled(ok)
  \/ Unmount

SpecLogout == Init /\ [][NextLogout]_vars

\* C32: the step in which the operator logs out, or the page is torn down, leaves
\* neither the sampler nor the commit timer of the pending session live, and no
\* commit fires while the close of the transport is in progress.
C32_LeavingCancelsTimersFirst ==
  [][/\ (mounted /\ closeCall.pc = "idle" /\ (closeCall'.pc # "idle" \/ ~mounted'))
          => (averagingIntervalRef \notin intervals' /\ averagingTimeoutRef \notin timeouts')
     /\ closeCall.pc # "idle" => ~(\E id \in timeouts : CommitStepOf(id))]_vars

(* ------------- specification: what the sampler observes --------------- *)
\* the k-th telemetry line reports k ohm, for the four channels or for channels
\* 29 and 31 only
SampleLine(k, full) ==
  IF full
  THEN <<"2", "9", ":">> \o IntText(k) \o <<";", "3", "0", ":">> \o IntText(k)
       \o <<";", "3", "1", ":">> \o IntText(k) \o <<";", "3", "2", ":">> \o IntText(k)
  ELSE <<"2", "9", ":">> \o IntText(k) \o <<";", "3", "1", ":">> \o IntText(k)

\* the first capture of the page, averaged and sampled once
NextSample ==
  \/ OpenSerialPort
  \/ \E full \in BOOLEAN :
       now < MaxSampleLines /\ ReadChunk(SampleLine(now + 1, full) \o <<NL>>)
  \/ measuredTempInput = EmptyField /\ SetMeasuredTemp(Num(25))
  \/ averagingTime = 0 /\ SetAveragingTime(2)
  \/ Len(sentCommands) <= MaxSampleToggles /\ handleThermistorToggle(1)
  \/ captures = 0 /\ HandleCalibrateAveraged
  \/ \E id \in intervals : sessions[id].count = 0 /\ SamplerTick(id)
  \/ \E id \in timeouts : CommitTimeout(id)
  \/ posts # <<>> /\ PostFail(1)

SpecSample == Init /\ [][NextSample]_vars

\* what line n gave channel i (line 0: the initial value of the page)
LineValue(n, i) ==
  IF n = 0 THEN Num(0)
  ELSE IF delivered[n] = SampleLine(n, TRUE) \/ i \in {1, 3} THEN Num(n)
  ELSE NaN

\* every active channel of the array holds what one and the same line gave it
WholeLine(ths) ==
  \E n \in 0..Len(delivered) :
    \A i \in Channels : ths[i].active => ths[i].resistance = LineValue(n, i)

\* the array read by the sampler tick of this step, if it is one
Sampled(id) == sessions'[id].obs[Len(sessions'[id].obs)]

SampleStep(id) ==
  /\ id \in DOMAIN sessions /\ id \in DOMAIN sessions'
  /\ sessions'[id].count = sessions[id].count + 1

\* channel i was active when the last line was processed: the chart point of
\* the line has a value for it
ActiveAtLastLine(i) ==
  chartData = <<>> \/ chartData[Len(chartData)].vals[i].kind # "absent"

\* C33 as stated: the active channels of every array the sampler reads hold the
\* values of one and the same telemetry line.
C33_SampleSeesWholeLines ==
  [][\A id \in intervals : SampleStep(id) => WholeLine(Sampled(id))]_vars

\* C33, amended: in every array the sampler reads, each active channel that was
\* active when the last line was processed holds what that line gave it; only a
\* channel switched on since then holds an older value.
C33_SampleSeesLastLine ==
  [][\A id \in intervals :
       SampleStep(id) =>
         \A i \in Channels :
           (Sampled(id)[i].active /\ ActiveAtLastLine(i))
           => Sampled(id)[i].resistance = LineValue(Len(delivered), i)]_vars

\* a session sampled after line 2, which lacked channels 30 and 32, while
\* channel 1 was off and held its value of line 1
C33_Witness ==
  /\ lastBuilt.session # 0
  /\ \E k \in 1..Len(lastBuilt.obs) :
       /\ ~lastBuilt.obs[k][1].active
       /\ lastBuilt.obs[k][1].resistance = Num(1)
       /\ lastBuilt.obs[k][2].resistance = NaN
       /\ lastBuilt.obs[k][3].resistance = Num(2)

(* ------------------- further claims over SpecClose -------------------- *)
StartPrefix == <<"2", "9", ",", "3", "0", ",", "3", "1", ",", "3", "2", ";">>

\* "29,30,31,32;" followed by numbers separated by commas and a newline
IsStartCommand(command) ==
  /\ Len(command) > Len(StartPrefix) + 1
  /\ SubSeq(command, 1, Len(StartPrefix)) = StartPrefix
  /\ command[Len(command)] = NL
  /\ \A k \in (Len(StartPrefix) + 1)..(Len(command) - 1) :
       command[k] \in {DigitChar(d) : d \in 0..9} \cup {","}

\* C34: a connection that reads has had the start command written to it: when
\* the read loop is waiting for a chunk, and whenever a chunk is read, the last
\* command written to the device is the start command (SpecClose writes no
\* other command).
C34_StartCommandBeforeRead ==
  [][/\ readerRef' = "reader"
          => (sentCommands' # <<>> /\ IsStartCommand(sentCommands'[Len(sentCommands')]))
     /\ received' # received
          => (sentCommands # <<>> /\ IsStartCommand(sentCommands[Len(sentCommands)]))]_vars

\* a whole line was delivered on the second connection of the device
C34_Witness ==
  /\ Len(sentCommands) = 2
  /\ readerRef = "reader"
  /\ bufferRef = <<>>
  /\ Len(delivered) = 1
  /\ Len(received) = Len(HeadChunk) + Len(RestChunk)

(* ------------------ further claims over SpecAveraging ------------------ *)
\* the markers appended by the step
AddedMarkers ==
  SubSeq(calibrationPoints', Len(calibrationPoints) + 1, Len(calibrationPoints'))

\* C35: the commit of an averaging session appends exactly one marker for each
\* channel active at the commit, and the raw value of each marker is the mean the
\* entry holds for its channel.
C35_MarkersCarryMeans ==
  [][(lastBuilt' # lastBuilt /\ lastBuilt'.session # 0) =>
       /\ \A i \in Channels :
            Cardinality({k \in 1..Len(AddedMarkers) : AddedMarkers[k].thermistorId = i})
              = IF thermistors[i].active THEN 1 ELSE 0
       /\ \A k \in 1..Len(AddedMarkers) :
            AddedMarkers[k].resistance = lastBuilt'.entry.r[AddedMarkers[k].thermistorId]]_vars

(* -------------- specification: the coefficient responses -------------- *)
NextCoeffs ==
  \/ OpenSerialPort
  \/ delivered = <<>> /\ ReadChunk(TextAll)
  \/ measuredTempInput = EmptyField /\ SetMeasuredTemp(Num(25))
  \/ captures < MaxCoeffCaptures /\ HandleCalibrateInstant
  \/ posts # <<>> /\ PostOk(1)
  \/ posts # <<>> /\ PostFail(1)
  \/ \E ok \in BOOLEAN, body \in CoeffBodies : FetchCoeffsAnswered(ok, body)
  \/ CoeffsError

SpecCoeffs == Init /\ [][NextCoeffs]_vars

C37_FlagTracksSession ==
  averagingInProgress <=> (averagingIntervalRef \in intervals /\ averagingTimeoutRef \in timeouts)

(* ------------ specification: a channel missing from a line ------------ *)
\* the first capture of the page, averaged, while lines with and without
\* channels 30..32 arrive and channel 2 is toggled
NextMissing ==
  \/ OpenSerialPort
  \/ \E value \in {TextAll, Line29} : Len(delivered) < MaxMissingLines /\ ReadChunk(value)
  \/ measuredTempInput = EmptyField /\ SetMeasuredTemp(Num(25))
  \/ averagingTime = 0 /\ SetAveragingTime(2)
  \/ Len(sentCommands) <= MaxToggles /\ handleThermistorToggle(2)
  \/ captures = 0 /\ HandleCalibrateAveraged
  \/ \E id \in intervals : sessions[id].count < MaxMissingTicks /\ SamplerTick(id)
  \/ \E id \in timeouts : CommitTimeout(id)
  \/ posts # <<>> /\ PostFail(1)

SpecMissing == Init /\ [][NextMissing]_vars

\* the step processes the line "29:7", which has no value for channels 30..32
Line29Step == LineStep /\ StepLine = Trim(Line29)

\* a line without an active channel turns its raw value into not-a-number, and a
\* sampler tick on an active channel in that state turns its sum into not-a-number
MissingPoisonsSum ==
  /\ Line29Step =>
       \A i \in 2..4 : thermistors[i].active => IsNaN(thermistors'[i].resistance)
  /\ \A id \in intervals :
       SampleStep(id) =>
         \A i \in Channels :
           (thermistors[i].active /\ IsNaN(thermistors[i].resistance))
           => IsNaN(sessions'[id].sum[i])

\* the sampler of the committed session read channel i active and not-a-number
SampledMissing(built, i) ==
  \E k \in 1..Len(built.obs) : built.obs[k][i].active /\ IsNaN(built.obs[k][i].resistance)

CommittedStep == lastBuilt' # lastBuilt /\ lastBuilt'.session # 0

\* C38 as stated: a line without an active channel makes its raw value
\* not-a-number; a sample of the channel in that state makes its sum, and the
\* value the committed entry holds for it, not-a-number.
C38_MissingPoisonsEntry ==
  [][/\ MissingPoisonsSum
     /\ CommittedStep =>
          \A i \in Channels :
            SampledMissing(lastBuilt', i) => IsNaN(lastBuilt'.entry.r[i])]_vars

\* C38, amended: the same, the entry holding not-a-number when the channel is
\* active at the commit and 0 when it is not.
C38_MissingPoisonsActiveEntry ==
  [][/\ MissingPoisonsSum
     /\ CommittedStep =>
          \A i \in Channels :
            SampledMissing(lastBuilt', i) =>
              IF lastBuilt'.active[i] THEN IsNaN(lastBuilt'.entry.r[i])
              ELSE lastBuilt'.entry.r[i] = Num(0)]_vars

\* channel 2 was sampled at 2 ohm and then, after "29:7", at not-a-number: the
\* entry holds not-a-number for it and the mean 4.5 for channel 1
C38_Witness ==
  /\ lastBuilt.session # 0
  /\ Len(lastBuilt.obs) = 2
  /\ lastBuilt.obs[1][2].resistance = Num(2)
  /\ IsNaN(lastBuilt.obs[2][2].resistance)
  /\ lastBuilt.active[2]
  /\ IsNaN(lastBuilt.entry.r[2])
  /\ lastBuilt.entry.r[1] = Rat(9, 2)

(* ---------- further claims over SpecClose: tail and handle ------------ *)
\* the device has been connected to a second time
Reconnected ==
  Cardinality({k \in 1..Len(sentCommands) : sentCommands[k] = StartCommand}) >= 2

\* C39: the tail the framer keeps survives the close of the transport: on a
\* connection opened after a close, the lines delivered are the terminated
\* lines of everything received on both connections, the first of them being
\* the old tail followed by the first characters of the new connection.
C39_TailSurvivesClose ==
  (Reconnected /\ readerRef = "reader") => delivered = TerminatedLines(received)

\* C39, amended: closeSerialPort() does not clear the tail, but the page is left
\* at the end of every close, and the connection opened next, by a new page,
\* starts from an empty tail.
C39_TailEndsWithPage ==
  [][/\ closeCall' # closeCall => bufferRef' = bufferRef
     /\ (ConnectStep /\ Reconnected') => bufferRef' = <<>>]_vars

\* "29:7" was left unterminated on the first connection, and the second
\* connection delivered ";30:2" as its first line
C39_Witness ==
  /\ Reconnected
  /\ received = HeadChunk \o RestChunk
  /\ delivered = <<SubSeq(RestChunk, 1, Len(RestChunk) - 1)>>

\* the page was left by a closeSerialPort() call that has run to its end
CloseCompleted == mounted /\ ~mounted' /\ closeCall'.pc = "idle"

\* C40: while the page is up serialConnected is true exactly when portRef holds
\* a port, and when closeSerialPort() has run to its end portRef is empty and
\* serialConnected is false.
C40_ConnectedIffPortHeld ==
  [][/\ mounted' => (serialConnected' <=> portRef' # "null")
     /\ CloseCompleted => (portRef' = "null" /\ ~serialConnected')]_vars

====
